---------------------------- MODULE Spec2Model ----------------------------
(***************************************************************************)
(* DamaiAppTicketRunner (src/damai_appium/runner.py): the phase state      *)
(* machine, preheat(), and the retry / scheduling loop of run() with the   *)
(* single-attempt flow, the between-attempt recovery and the run report.   *)
(*                                                                         *)
(* The remote automation driver, the logger sink and the stop predicate    *)
(* are the environment: every driver call picks its outcome from the       *)
(* outcomes the step's code distinguishes, the sink picks its outcome per  *)
(* call, and the stop flag is raised by RequestStop at any time.           *)
(***************************************************************************)
EXTENDS Integers, Sequences, FiniteSets

\* ------------------------------------------------------------------ bounds
\* largest max_retries argument passed to run()
MaxRetries == 2
\* most sleep slices a scheduled wait lasts
MaxSlices == 2
\* most driver calls of one history that end other than the step's usual
\* way (a call whose outcome the runner never reads is not counted)
MaxFaults == 1
\* most viewer rows clicked in the viewer dialog
MaxViewers == 1
\* longest countdown of a scheduled start, in seconds
MaxCountdown == 3
\* largest warm-up setting, in seconds
MaxWarmup == 2
\* the largest ticket quantity wanted or displayed
MaxQuantity == 7
\* the longest selector list handed to _smart_wait_and_click
MaxSelectors == 3
\* most start() calls on one CountdownTimer
MaxStarts == 2

\* for _ in range(5) of _navigate_to_homepage
NavPresses == 5

\* ------------------------------------------------------------- vocabulary
INIT == "init"
CONNECTING == "connecting"
APPLYING_SETTINGS == "applying_settings"
SELECTING_CITY == "selecting_city"
SEARCHING_EVENT == "searching_event"
TAPPING_PURCHASE == "tapping_purchase"
SELECTING_DATE == "selecting_date"
SELECTING_SESSION == "selecting_session"
SELECTING_PRICE == "selecting_price"
SELECTING_QUANTITY == "selecting_quantity"
CONFIRMING_PURCHASE == "confirming_purchase"
COMPLETED == "completed"
STOPPED == "stopped"
FAILED == "failed"

RunnerPhase ==
    {INIT, CONNECTING, APPLYING_SETTINGS, SELECTING_CITY, SEARCHING_EVENT,
     TAPPING_PURCHASE, SELECTING_DATE, SELECTING_SESSION, SELECTING_PRICE,
     SELECTING_QUANTITY, CONFIRMING_PURCHASE, "selecting_users",
     "submitting_order", COMPLETED, STOPPED, FAILED}

USER_STOP == "user_stop"
APPIUM_CONNECTION == "appium_connection_failed"
FLOW_FAILURE == "flow_failure"
UNEXPECTED == "unexpected_error"
MAX_RETRIES == "max_retries_reached"
None == "None"

FailureReason == {USER_STOP, APPIUM_CONNECTION, FLOW_FAILURE, UNEXPECTED, MAX_RETRIES}

LogLevel == {"step", "info", "success", "warning", "error"}

\* ------------------------------------------------------------- exceptions
\* The exception classes the code raises or catches, with their base classes.
Ancestors(cls) ==
    CASE cls = "TicketRunnerStopped" ->
             {"TicketRunnerStopped", "TicketRunnerError", "Exception"}
      [] cls = "TicketRunnerError" -> {"TicketRunnerError", "Exception"}
      [] cls = "TimeoutException" ->
             {"TimeoutException", "WebDriverException", "Exception"}
      [] cls = "WebDriverException" -> {"WebDriverException", "Exception"}
      [] cls = "TypeError" -> {"TypeError", "Exception"}
      [] OTHER -> {"Exception"}

\* except <handler>: catches an exception of class cls
Catches(handler, cls) == handler \in Ancestors(cls)

\* An exception in flight: class and message.  Messages are the texts the
\* runner builds; "connect" is the text of runner.py line 373.  A driver
\* call raises "driver" (any WebDriver failure) or "session_lost" (the
\* server no longer knows the session).
NoExc == [cls |-> None, msg |-> None]
Exc(cls, msg) == [cls |-> cls, msg |-> msg]
StoppedExc == Exc("TicketRunnerStopped", "stop_requested")

VARIABLES
    pc,              \* control point of the call in progress ("idle": none)
    ret,             \* how the last call ended: None while none has, "true",
                     \* "false", "preheated" (preheat returned) or "raised"
    calls,           \* the public calls made on the Runner, in order
    stop_signal,     \* the stop flag the predicate reads: "false" or "true"
    config,          \* which AppTicketConfig fields are set
    faults,          \* driver calls so far that did not succeed
    current_phase,
    phase_history,
    log_entries,     \* _log_entries, each entry by its level
    last_report,
    driver,          \* _driver: None or "open"
    max_retries,
    attempts,
    success,
    failure_code,
    failure_message,
    skip_preheat,
    exc,             \* exception propagating out of the attempt
    wait_left,       \* sleep slices until start_time
    nav_left,        \* back presses left in _navigate_to_homepage
    flow_steps,      \* steps the current attempt has executed
    driver_used,     \* a driver call was made during the current call
    attempt_from,    \* length of phase_history when the current attempt began
    gui,             \* the scheduled start of damai_gui.py: its countdown
                     \* timer, its preheat thread and its run thread
    ui,              \* the step executor called last: its inputs, the
                     \* driver calls it made and how it ended
    timer            \* a CountdownTimer whose on_update callback may stop
                     \* or reset it

\* the fields of the Runner and of the call in progress
runnerVars == <<pc, ret, calls, stop_signal, config, faults, current_phase,
                phase_history, log_entries, last_report, driver, max_retries,
                attempts, success, failure_code, failure_message,
                skip_preheat, exc, wait_left, nav_left, flow_steps,
                driver_used, attempt_from>>

vars == <<runnerVars, gui, ui, timer>>

\* what no step of an attempt changes
attemptFrame == <<ret, calls, stop_signal, config, last_report, max_retries,
                  attempts, success, failure_code, failure_message,
                  skip_preheat, wait_left, nav_left>>

\* get_last_report() before any report was built
NoReport == [made |-> FALSE]


\* ------------------------------------------------------------ phase machine
\* The phase state: current_phase and phase_history together.
Phase == [cur |-> current_phase, hist |-> phase_history]
SetPhase(ps) == current_phase' = ps.cur /\ phase_history' = ps.hist

\* _transition_to that forgets to record the phase in the history
transition_to_no_record(ps, phase) ==
    IF phase = ps.cur THEN ps ELSE [cur |-> phase, hist |-> ps.hist]

\* _transition_to without its test for the current phase
transition_to_always(ps, phase) ==
    [cur |-> phase, hist |-> Append(ps.hist, phase)]

\* _transition_to
transition_to(ps, phase) ==
    IF phase = ps.cur THEN ps
    ELSE [cur |-> phase, hist |-> Append(ps.hist, phase)]

\* _mark_failure
mark_failure(ps) ==
    IF ps.cur # FAILED THEN transition_to(ps, FAILED) ELSE ps

\* _mark_stopped that leaves every terminal phase alone
mark_stopped_unless_terminal(ps) ==
    IF ps.cur \in {COMPLETED, STOPPED, FAILED} THEN ps
    ELSE transition_to(ps, STOPPED)

\* _mark_stopped
mark_stopped(ps) ==
    IF ps.cur # STOPPED THEN transition_to(ps, STOPPED) ELSE ps

\* ------------------------------------------------------- stop, log, failure
\* What one call of the stop predicate gives: True once stop is requested;
\* before that False, or an exception of its own.
PredicateOutcomes(sig) ==
    IF sig = "true" THEN {"true"} ELSE {"false", "raises"}

\* _should_stop without its try/except: the predicate's exception goes on
should_stop_uncaught(r) == IF r = "raises" THEN "escape" ELSE r

\* _should_stop on the predicate's outcome r: "true" or "false"; "escape"
\* when the predicate's exception is not caught.
should_stop(r) ==
    IF r = "raises"
    THEN IF Catches("Exception", "PredicateError") THEN "false" ELSE "escape"
    ELSE r

\* the samples of _should_stop the stop flag allows
Samples(sig) == {should_stop(r) : r \in PredicateOutcomes(sig)}

\* What one _log call meets at the sink: the outcome of logger(level,
\* message, context) and of the retry logger(level, message).
SinkBehaviours ==
    {[first |-> "ok", second |-> "ok"],
     [first |-> "TypeError", second |-> "ok"],
     [first |-> "TypeError", second |-> "SinkError"],
     [first |-> "SinkError", second |-> "ok"]}

\* _log with only its except TypeError clause
log_escapes_uncaught(sink) ==
    IF sink.first = "ok" THEN FALSE
    ELSE IF Catches("TypeError", sink.first) THEN sink.second # "ok"
         ELSE TRUE

\* _log, the sink part: TRUE when an exception of the sink leaves _log.
log_escapes(sink) ==
    IF sink.first = "ok" THEN FALSE
    ELSE IF Catches("TypeError", sink.first)
         THEN sink.second # "ok" /\ ~Catches("Exception", sink.second)
         ELSE ~Catches("Exception", sink.first)

\* _log, the recorder part: the entry is appended before the sink is called.
Log(entries, level) == Append(entries, level)

\* the reset that forgets to empty the log
reset_keeps_log(ps, entries) ==
    [ps |-> [cur |-> INIT, hist |-> <<INIT>>], entries |-> entries]

\* lines 182-184 and 242-244: the reset at the start of preheat() and run(),
\* of the phase state ps and the log entries
reset(ps, entries) ==
    [ps |-> [cur |-> INIT, hist |-> <<INIT>>], entries |-> <<>>]

\* _diagnose_failure
diagnose_failure(e) ==
    IF Catches("TicketRunnerStopped", e.cls) THEN USER_STOP
    ELSE IF Catches("TicketRunnerError", e.cls)
         THEN IF e.msg = "connect" THEN APPIUM_CONNECTION ELSE FLOW_FAILURE
         ELSE UNEXPECTED

\* max(1, max_retries)
ClampRetries(n) == IF n < 1 THEN 1 ELSE n

\* line 510: the message of the TicketRunnerError that wraps an exception of
\* another class; it quotes the text of the wrapped exception
PhaseException(msg) ==
    IF msg = "session_lost" THEN "phase_exception_session_lost"
    ELSE "phase_exception"

\* the except clauses of _perform_ticket_flow (lines 502-511): the phase
\* state and the exception that leaves the flow
flow_except(ps, e) ==
    IF Catches("TicketRunnerStopped", e.cls)
    THEN [ps |-> mark_stopped(ps), exc |-> e]
    ELSE IF Catches("TicketRunnerError", e.cls)
         THEN [ps |-> mark_failure(ps), exc |-> e]
         ELSE [ps |-> mark_failure(ps),
               exc |-> Exc("TicketRunnerError", PhaseException(e.msg))]

\* ------------------------------------------------------------ environment
\* The AppTicketConfig fields the flow branches on, each set or not: every
\* field set, exactly one unset, or none set.
Configs ==
    {c \in [city : BOOLEAN, keyword : BOOLEAN, date : BOOLEAN,
            session_index : BOOLEAN, price_index : BOOLEAN] :
        LET unset == {f \in DOMAIN c : ~c[f]} IN
        Cardinality(unset) \in {0, 1, Cardinality(DOMAIN c)}}

\* a driver call may end other than in success while the budget lasts
MayFail == faults < MaxFaults
Counted(outcome, nominal) ==
    faults' = IF outcome = nominal THEN faults ELSE faults + 1

\* damai_gui.py before a start is scheduled: the CountdownTimer as its
\* __init__ leaves it (countdown_timer.py 31-38), no thread, no app_runner.
\* remaining is max(int(_target_epoch - time.time()), 0); timer_id is TRUE
\* while a _tick callback is pending in the Tk loop; idle_stop is TRUE while
\* the after_idle callback that stops the countdown is pending; a Runner
\* instance is the number of its construction, 0 is None.
GuiUnscheduled ==
    [scheduled |-> FALSE, warmup |-> 0, remaining |-> 0, running |-> FALSE,
     displayed |-> -1, timer_id |-> FALSE, preheat_executed |-> FALSE,
     preheat_thread |-> "none", preheat_on |-> 0, created |-> 0,
     app_runner |-> 0, idle_stop |-> FALSE, run_thread |-> "none",
     run_on |-> 0, finished |-> 0]

\* no step executor called yet
NoStep == [op |-> "none", input |-> [none |-> TRUE], trace |-> <<>>,
           returned |-> "none"]

\* countdown_timer.py 29-38: a CountdownTimer after __init__.  halted,
\* late, finishes and starts record the calls made on it: stop() or reset()
\* was called since the last start(), a callback was invoked after that,
\* the on_finish calls since the last start(), the start() calls.
NewTimer == [running |-> FALSE, remaining |-> 0, displayed |-> -1,
             timer_id |-> FALSE, halted |-> FALSE, late |-> "none",
             finishes |-> 0, starts |-> 0]

Init ==
    /\ pc = "idle"
    /\ ret = None
    /\ calls = <<>>
    /\ stop_signal = "false"
    /\ config \in Configs
    /\ faults = 0
    /\ current_phase = INIT
    /\ phase_history = <<INIT>>
    /\ log_entries = <<>>
    /\ last_report = NoReport
    /\ driver = None
    /\ max_retries = 0
    /\ attempts = 0
    /\ success = FALSE
    /\ failure_code = None
    /\ failure_message = None
    /\ skip_preheat = FALSE
    /\ exc = NoExc
    /\ wait_left = 0
    /\ nav_left = 0
    /\ flow_steps = <<>>
    /\ driver_used = FALSE
    /\ attempt_from = 1
    /\ gui = GuiUnscheduled
    /\ ui = NoStep
    /\ timer = NewTimer

\* The user presses stop (damai_gui.py sets app_should_stop = True).
RequestStop ==
    /\ UNCHANGED <<attempt_from, gui, ui, timer>>
    /\ stop_signal = "false"
    /\ stop_signal' = "true"
    /\ UNCHANGED <<pc, ret, calls, config, faults, current_phase,
                   phase_history, log_entries, last_report, driver,
                   max_retries, attempts, success, failure_code,
                   failure_message, skip_preheat, exc, wait_left, nav_left,
                   flow_steps, driver_used>>

\* An exception leaves the public call in progress.
Escaped ==
    /\ pc' = "idle"
    /\ ret' = "raised"
    /\ UNCHANGED <<calls, stop_signal, config, faults, current_phase,
                   phase_history, log_entries, last_report, driver,
                   max_retries, attempts, success, failure_code,
                   failure_message, skip_preheat, exc, wait_left, nav_left,
                   flow_steps, driver_used>>

\* The life of a Runner in damai_gui.py: it is constructed, preheat() is
\* called at most once and first (the warm-up of a scheduled start), run()
\* is called once, and the Runner is dropped.
MayCall(name) ==
    IF name = "preheat" THEN calls = <<>>
    ELSE \A i \in 1..Len(calls) : calls[i] # "run"

\* ------------------------------------------------------------------ run()
\* run(max_retries = n, start_time): lines 242-246, and 261-266 when
\* start_time is not in the future (slices = 0).
RunCall(n, slices) ==
    /\ attempt_from' = 1
    /\ UNCHANGED <<gui, ui, timer>>
    /\ pc = "idle"
    /\ MayCall("run")
    /\ calls' = Append(calls, "run")
    /\ ret' = None
    /\ SetPhase(reset(Phase, log_entries).ps)
    /\ log_entries' = reset(Phase, log_entries).entries
    /\ last_report' = NoReport
    /\ wait_left' = slices
    /\ attempts' = 0
    /\ success' = FALSE
    /\ failure_code' = None
    /\ failure_message' = None
    /\ max_retries' = IF slices = 0 THEN ClampRetries(n) ELSE n
    /\ pc' = IF slices = 0 THEN "loop" ELSE "wait_entry"
    /\ exc' = NoExc
    /\ nav_left' = 0
    /\ flow_steps' = <<>>
    /\ driver_used' = FALSE
    /\ UNCHANGED <<stop_signal, config, faults, driver, skip_preheat>>

\* line 251: the log of the remaining time
WaitEntry ==
    /\ UNCHANGED <<attempt_from, gui, ui, timer>>
    /\ pc = "wait_entry"
    /\ \E sink \in SinkBehaviours :
        IF log_escapes(sink) THEN Escaped
        ELSE /\ log_entries' = Log(log_entries, "info")
             /\ pc' = "wait"
             /\ UNCHANGED <<ret, calls, stop_signal, config, faults,
                            current_phase, phase_history, last_report,
                            driver, max_retries, attempts, success,
                            failure_code, failure_message, skip_preheat, exc,
                            wait_left, nav_left, flow_steps, driver_used>>

\* the wait loop without its stop check
wait_ignores_stop(s) == FALSE

\* lines 253-255: the wait loop leaves run() when the stop sample is true
wait_stops(s) == s = "true"

\* the wait loop without the recomputation of line 258
wait_after_sleep_stale(left) == {left}

\* lines 257-258: the slices left after one sleep, fewer than before
wait_after_sleep(left) == 0..(left - 1)

\* lines 252-258: one pass of the wait loop, the stop sample then a sleep
\* slice (the sleep may overshoot)
WaitSlice ==
    /\ UNCHANGED <<attempt_from, gui, ui, timer>>
    /\ pc = "wait"
    /\ wait_left > 0
    /\ \E s \in Samples(stop_signal) :
        IF s = "escape" THEN Escaped
        ELSE IF wait_stops(s)
        THEN /\ SetPhase(mark_stopped(Phase))
             /\ pc' = "idle"
             /\ ret' = "false"
             /\ UNCHANGED <<calls, stop_signal, config, faults, log_entries,
                            last_report, driver, max_retries, attempts,
                            success, failure_code, failure_message,
                            skip_preheat, exc, wait_left, nav_left,
                            flow_steps, driver_used>>
        ELSE /\ \E left \in wait_after_sleep(wait_left) : wait_left' = left
             /\ UNCHANGED <<pc, ret, calls, stop_signal, config, faults,
                            current_phase, phase_history, log_entries,
                            last_report, driver, max_retries, attempts,
                            success, failure_code, failure_message,
                            skip_preheat, exc, nav_left, flow_steps,
                            driver_used>>

\* lines 259-266: start_time reached
WaitArrive ==
    /\ UNCHANGED <<attempt_from, gui, ui, timer>>
    /\ pc = "wait"
    /\ wait_left = 0
    /\ \E sink \in SinkBehaviours :
        IF log_escapes(sink) THEN Escaped
        ELSE /\ log_entries' = Log(log_entries, "info")
             /\ max_retries' = ClampRetries(max_retries)
             /\ pc' = "loop"
             /\ UNCHANGED <<ret, calls, stop_signal, config, faults,
                            current_phase, phase_history, last_report,
                            driver, attempts, success, failure_code,
                            failure_message, skip_preheat, exc, wait_left,
                            nav_left, flow_steps, driver_used>>

\* the loop condition written with <= (one attempt too many)
loop_continues_inclusive(n, limit, s) == n <= limit /\ s # "true"

\* line 268: the condition of the attempt loop
loop_continues(n, limit, s) == n < limit /\ s # "true"

\* lines 268-277: the loop test and the start of an attempt
LoopTest ==
    /\ pc = "loop"
    /\ \E s \in IF attempts < max_retries THEN Samples(stop_signal)
               ELSE {"false"} :
        IF s = "escape" THEN Escaped
        ELSE IF loop_continues(attempts, max_retries, s)
        THEN \E sink \in SinkBehaviours :
            IF log_escapes(sink) THEN Escaped
            ELSE /\ attempts' = attempts + 1
                 /\ log_entries' = Log(log_entries, "info")
                 /\ skip_preheat' = (driver # None)
                 /\ flow_steps' = <<>>
                 /\ exc' = NoExc
                 /\ pc' = "eo_entry"
                 /\ UNCHANGED <<ret, calls, stop_signal, config, faults,
                                current_phase, phase_history, last_report,
                                driver, max_retries, success, failure_code,
                                failure_message, wait_left, nav_left,
                                driver_used>>
        ELSE /\ pc' = "finalize"
             /\ UNCHANGED <<ret, calls, stop_signal, config, faults,
                            current_phase, phase_history, log_entries,
                            last_report, driver, max_retries, attempts,
                            success, failure_code, failure_message,
                            skip_preheat, exc, wait_left, nav_left,
                            flow_steps, driver_used>>
    /\ UNCHANGED <<gui, ui, timer>>
    /\ attempt_from' = IF pc' = "eo_entry" THEN Len(phase_history)
                       ELSE attempt_from

\* ------------------------------------------------------- _execute_once
\* A step of the attempt ends: with exception e inside _perform_ticket_flow
\* (its except clauses run, then the finally of _execute_once is next), or
\* normally with the next step to come.
FlowNext(ps, entries, steps, outcome, nominal, used, e, nextpc) ==
    /\ UNCHANGED attemptFrame
    /\ UNCHANGED driver
    /\ Counted(outcome, nominal)
    /\ driver_used' = used
    /\ log_entries' = entries
    /\ flow_steps' = steps
    /\ IF e = NoExc
       THEN SetPhase(ps) /\ exc' = NoExc /\ pc' = nextpc
       ELSE LET h == flow_except(ps, e) IN
            SetPhase(h.ps) /\ exc' = h.exc /\ pc' = "eo_finally"

\* an exception raised in the flow before the step at hand did anything
FlowRaise(e) ==
    FlowNext(Phase, log_entries, flow_steps, "ok", "ok", driver_used, e, pc)

\* _ensure_not_stopped before a flow step
StopGate(Step) ==
    \E s \in Samples(stop_signal) :
    IF s = "escape" THEN FlowRaise(Exc("PredicateError", "predicate"))
    ELSE IF s = "true" THEN FlowRaise(StoppedExc)
    ELSE Step

\* the _log calls of a flow step reach the sink
FlowLogs(Step) ==
    \E sink \in SinkBehaviours :
        IF log_escapes(sink) THEN FlowRaise(Exc("SinkError", "sink"))
        ELSE Step

\* An exception leaves the try body of _execute_once outside the flow.
AttemptRaise(ps, entries, steps, outcome, nominal, used, drv, e) ==
    /\ UNCHANGED attemptFrame
    /\ Counted(outcome, nominal)
    /\ driver_used' = used
    /\ driver' = drv
    /\ log_entries' = entries
    /\ flow_steps' = steps
    /\ SetPhase(ps)
    /\ exc' = e
    /\ pc' = "eo_finally"

\* what driver_factory / webdriver.Remote gives: a session or an exception
CreateOutcomes == {"ok", "raise"}

\* lines 364-373 and 380-385: the stop check, then the connect step or the
\* reuse of the open session
EoEntry ==
    /\ UNCHANGED <<attempt_from, gui, ui, timer>>
    /\ pc = "eo_entry"
    /\ \E s \in Samples(stop_signal) :
        IF s = "escape"
        THEN AttemptRaise(Phase, log_entries, flow_steps, "ok", "ok",
                          driver_used, driver,
                          Exc("PredicateError", "predicate"))
        ELSE IF s = "true"
        THEN AttemptRaise(Phase, log_entries, flow_steps, "ok", "ok",
                          driver_used, driver, StoppedExc)
        ELSE \E sink \in SinkBehaviours :
            IF log_escapes(sink)
            THEN AttemptRaise(Phase, log_entries, flow_steps, "ok", "ok",
                              driver_used, driver, Exc("SinkError", "sink"))
            ELSE IF skip_preheat
            THEN /\ log_entries' = Log(Log(log_entries, "info"), "step")
                 /\ pc' = "pf_city"
                 /\ UNCHANGED attemptFrame
                 /\ UNCHANGED <<faults, current_phase, phase_history, driver,
                                exc, flow_steps, driver_used>>
            ELSE \E o \in CreateOutcomes :
                /\ o = "ok" \/ MayFail
                /\ LET ps == transition_to(Phase, CONNECTING)
                       entries == Log(log_entries, "step")
                       steps == Append(flow_steps, "connect")
                   IN
                   IF o = "raise"
                   THEN AttemptRaise(ps, entries, steps, o, "ok", TRUE, driver,
                                     Exc("TicketRunnerError", "connect"))
                   ELSE /\ SetPhase(ps)
                        /\ log_entries' = entries
                        /\ flow_steps' = steps
                        /\ driver' = "open"
                        /\ driver_used' = TRUE
                        /\ pc' = "eo_settings"
                        /\ UNCHANGED attemptFrame
                        /\ UNCHANGED <<faults, exc>>

\* lines 376-379 and 385: the settings step (a failure is a warning) and the
\* log that opens the flow
EoSettings ==
    /\ UNCHANGED <<attempt_from, gui, ui, timer>>
    /\ pc = "eo_settings"
    /\ \E sink \in SinkBehaviours, o \in {"ok", "raise"} :
        /\ o = "ok" \/ MayFail
        /\ LET ps == transition_to(Phase, APPLYING_SETTINGS)
               steps == Append(flow_steps, "apply_settings")
               warned == IF o = "ok" THEN log_entries
                         ELSE Log(log_entries, "warning")
           IN
           IF log_escapes(sink)
           THEN AttemptRaise(ps, log_entries, steps, o, "ok", TRUE, driver,
                             Exc("SinkError", "sink"))
           ELSE /\ SetPhase(ps)
                /\ log_entries' = Log(warned, "step")
                /\ flow_steps' = steps
                /\ Counted(o, "ok")
                /\ pc' = "pf_city"
                /\ UNCHANGED attemptFrame
                /\ UNCHANGED <<driver, exc, driver_used>>

\* -------------------------------------------------- _perform_ticket_flow
\* the flow going on after a step's False
FlowError_ignored(returned, msg) == NoExc

\* a step's boolean False where the flow raises TicketRunnerError(msg)
FlowError(returned, msg) ==
    IF returned THEN NoExc ELSE Exc("TicketRunnerError", msg)

\* lines 423-431: select location, when the attempt opened its own session
\* and a city is configured (_select_city never raises)
PfCity ==
    /\ UNCHANGED <<attempt_from, gui, ui, timer>>
    /\ pc = "pf_city"
    /\ StopGate(
        IF ~skip_preheat /\ config.city
        THEN FlowLogs(\E o \in {"true", "false"} :
            /\ o = "true" \/ MayFail
            /\ FlowNext(transition_to(Phase, SELECTING_CITY),
                        IF o = "true" THEN Log(log_entries, "step")
                        ELSE Log(Log(log_entries, "step"), "warning"),
                        Append(flow_steps, "select_city"), o, "true", TRUE,
                        NoExc, "pf_search"))
        ELSE FlowNext(Phase, log_entries, flow_steps, "ok", "ok",
                      driver_used, NoExc, "pf_search"))

\* _search_event(keyword) as the flow calls it: what it logs and how it ends
\* ("true"/"false" returned, or "raise": an exception that is no
\* TimeoutException).  skip: skip_search=True, only the result is clicked.
SearchOutcomes(skip) ==
    IF skip
    THEN {[id |-> "true", logs |-> <<>>, ends |-> "true"],
          [id |-> "result_timeout", logs |-> <<>>, ends |-> "false"],
          [id |-> "result_error", logs |-> <<>>, ends |-> "raise"],
          [id |-> "session_lost", logs |-> <<>>, ends |-> "lost"]}
    ELSE {[id |-> "true", logs |-> <<"info">>, ends |-> "true"],
          [id |-> "input_timeout", logs |-> <<"error">>, ends |-> "false"],
          [id |-> "input_error", logs |-> <<>>, ends |-> "raise"],
          [id |-> "result_timeout", logs |-> <<"info">>, ends |-> "false"],
          [id |-> "result_error", logs |-> <<"info">>, ends |-> "raise"],
          [id |-> "session_lost", logs |-> <<>>, ends |-> "lost"]}

\* the exception a step leaves the flow with
StepExc(ends, msg) ==
    IF ends = "raise" THEN Exc("WebDriverException", "driver")
    ELSE IF ends = "lost" THEN Exc("WebDriverException", "session_lost")
    ELSE FlowError(ends = "true", msg)

\* lines 434-447: search target
PfSearch ==
    /\ UNCHANGED <<attempt_from, gui, ui, timer>>
    /\ pc = "pf_search"
    /\ StopGate(
        IF config.keyword
        THEN FlowLogs(\E o \in SearchOutcomes(skip_preheat) :
            /\ o.id = "true" \/ MayFail
            /\ FlowNext(transition_to(Phase, SEARCHING_EVENT),
                        Log(log_entries, "step") \o o.logs,
                        Append(flow_steps, "search_event"), o.id, "true",
                        TRUE, StepExc(o.ends, "search_failed"), "pf_theme"))
        ELSE FlowNext(Phase, log_entries, flow_steps, "ok", "ok",
                      driver_used, NoExc, "pf_theme"))

\* lines 450-452: the stop check and the phase of the viewer-dialog step
PfTheme ==
    /\ UNCHANGED <<attempt_from, gui, ui, timer>>
    /\ pc = "pf_theme"
    /\ StopGate(FlowNext(transition_to(Phase, TAPPING_PURCHASE), log_entries,
                         flow_steps, "ok", "ok", driver_used, NoExc,
                         "pf_theme_dialog"))

\* _select_theme_dialog after its own stop check (line 552): the dialog is
\* absent; or its button was clicked, rows viewer rows were logged and
\* clicked, and the step went through the back key ("done") or an
\* exception inside its try was logged ("failed"), raised before the back
\* key (at "rows") or by the back key itself (at "press")
ThemeOutcomes ==
    {[id |-> "absent", at |-> "none", logs |-> <<>>]}
    \cup {[id |-> "done", at |-> "none",
           logs |-> [i \in 1..rows |-> "info"]] : rows \in 0..MaxViewers}
    \cup {[id |-> "failed", at |-> at,
           logs |-> [i \in 1..rows |-> "info"] \o <<"error">>] :
            rows \in 0..MaxViewers, at \in {"rows", "press"}}

\* the viewer-dialog step with the back key pressed on every path
back_presses_always(id, at) == 1

\* lines 806-835: how often _select_theme_dialog calls press_keycode(4); the
\* call is the last statement of the try block inside the if
back_presses(id, at) ==
    IF id = "done" \/ (id = "failed" /\ at = "press") THEN 1 ELSE 0

\* line 452: resolve the viewer dialog (it raises only at its first stop
\* check; its return value is not read)
PfThemeDialog ==
    /\ UNCHANGED <<attempt_from, gui, ui, timer>>
    /\ pc = "pf_theme_dialog"
    /\ StopGate(FlowLogs(\E o \in ThemeOutcomes :
        /\ o.id = "absent" \/ MayFail
        /\ FlowNext(Phase, log_entries \o o.logs,
                    Append(flow_steps, "select_theme_dialog")
                        \o [i \in 1..back_presses(o.id, o.at) |-> "press_back"],
                    o.id, "absent", TRUE, NoExc, "pf_tap")))

\* lines 454-458: open the purchase dialog (_tap_purchase_button never raises)
PfTap ==
    /\ UNCHANGED <<attempt_from, gui, ui, timer>>
    /\ pc = "pf_tap"
    /\ StopGate(FlowLogs(\E o \in {"true", "false"} :
        /\ o = "true" \/ MayFail
        /\ FlowNext(transition_to(Phase, TAPPING_PURCHASE),
                    Log(log_entries, "step"),
                    Append(flow_steps, "tap_purchase"), o, "true", TRUE,
                    FlowError(o = "true", "no_purchase_entry"), "pf_date")))

\* _select_date: no calendar control; the month or the day not found; the
\* date clicked; or an exception that is no TimeoutException.  With no date
\* configured the month looked for is "None", which no control shows.
DateOutcomes(configured) ==
    {[id |-> "no_calendar", logs |-> <<>>, ends |-> "false"],
     [id |-> "month_missing", logs |-> <<"error">>, ends |-> "false"],
     [id |-> "error", logs |-> <<>>, ends |-> "raise"],
     [id |-> "session_lost", logs |-> <<>>, ends |-> "lost"]}
    \cup IF configured
         THEN {[id |-> "true", logs |-> <<"info", "success">>, ends |-> "true"],
               [id |-> "day_missing", logs |-> <<"info", "error">>,
                ends |-> "false"]}
         ELSE {}

\* the date step's return value False: what the flow does with it
date_failure(configured) == NoExc

\* lines 460-464: select date
PfDate ==
    /\ UNCHANGED <<attempt_from, gui, ui, timer>>
    /\ pc = "pf_date"
    /\ StopGate(FlowLogs(\E o \in DateOutcomes(config.date) :
        LET nominal == IF config.date THEN "true" ELSE "no_calendar" IN
        /\ o.id = nominal \/ MayFail
        /\ FlowNext(transition_to(Phase, SELECTING_DATE),
                    Log(log_entries, "step") \o o.logs
                        \o (IF o.ends = "false" THEN <<"step">> ELSE <<>>),
                    Append(flow_steps, "select_date"), o.id, nominal, TRUE,
                    IF o.ends = "false" THEN date_failure(config.date)
                    ELSE StepExc(o.ends, "date_failed"),
                    "pf_session")))

\* _select_session / _select_price: no index configured (False at once); the
\* container not found; no element for the index; the element clicked; or
\* an exception that is no TimeoutException
IndexOutcomes(configured) ==
    IF ~configured
    THEN {[id |-> "unset", logs |-> <<>>, ends |-> "false"]}
    ELSE {[id |-> "true", logs |-> <<>>, ends |-> "true"],
          [id |-> "no_container", logs |-> <<"warning">>, ends |-> "false"],
          [id |-> "not_found", logs |-> <<"error">>, ends |-> "false"],
          [id |-> "error", logs |-> <<>>, ends |-> "raise"],
          [id |-> "session_lost", logs |-> <<>>, ends |-> "lost"]}

\* lines 466-470: select session
PfSession ==
    /\ UNCHANGED <<attempt_from, gui, ui, timer>>
    /\ pc = "pf_session"
    /\ StopGate(FlowLogs(\E o \in IndexOutcomes(config.session_index) :
        LET nominal == IF config.session_index THEN "true" ELSE "unset" IN
        /\ o.id = nominal \/ MayFail
        /\ FlowNext(transition_to(Phase, SELECTING_SESSION),
                    Log(log_entries, "step") \o o.logs,
                    Append(flow_steps, "select_session"), o.id, nominal,
                    config.session_index \/ driver_used,
                    StepExc(o.ends, "session_failed"), "pf_price")))

\* lines 472-476: select price
PfPrice ==
    /\ UNCHANGED <<attempt_from, gui, ui, timer>>
    /\ pc = "pf_price"
    /\ StopGate(FlowLogs(\E o \in IndexOutcomes(config.price_index) :
        LET nominal == IF config.price_index THEN "true" ELSE "unset" IN
        /\ o.id = nominal \/ MayFail
        /\ FlowNext(transition_to(Phase, SELECTING_PRICE),
                    Log(log_entries, "step") \o o.logs,
                    Append(flow_steps, "select_price"), o.id, nominal,
                    config.price_index \/ driver_used,
                    StepExc(o.ends, "price_failed"), "pf_quantity")))

\* lines 479-483: select quantity (its return value is not read and it
\* never raises)
PfQuantity ==
    /\ UNCHANGED <<attempt_from, gui, ui, timer>>
    /\ pc = "pf_quantity"
    /\ StopGate(FlowLogs(\E o \in {"true", "false"} :
        FlowNext(transition_to(Phase, SELECTING_QUANTITY),
                 Log(log_entries, "step"),
                 Append(flow_steps, "select_quantity"), "ok", "ok", TRUE,
                 NoExc, "pf_confirm")))

\* lines 487-501: confirm purchase, then Completed
PfConfirm ==
    /\ UNCHANGED <<attempt_from, gui, ui, timer>>
    /\ pc = "pf_confirm"
    /\ StopGate(FlowLogs(\E o \in {"true", "false"} :
        /\ o = "true" \/ MayFail
        /\ LET ps == transition_to(Phase, CONFIRMING_PURCHASE) IN
           FlowNext(IF o = "true" THEN transition_to(ps, COMPLETED) ELSE ps,
                    Log(log_entries, "step"),
                    Append(flow_steps, "confirm_purchase"), o, "true", TRUE,
                    FlowError(o = "true", "confirm_failed"), "eo_finally")))

\* --------------------------------------------- the end of an attempt
\* _cleanup_driver whose reference is cleared after quit() instead of in a
\* finally clause
cleanup_driver_no_finally(drv, quit) ==
    IF quit = "raise" THEN drv ELSE None

\* _cleanup_driver: the session reference after it (quit's exception is
\* swallowed, the reference is cleared either way)
cleanup_driver(drv, quit) == None

\* _cleanup_driver without its except Exception clause
cleanup_raises_uncaught(quit) == quit = "raise"

\* _cleanup_driver, lines 1047-1050: TRUE when an exception of quit() leaves
\* _cleanup_driver
cleanup_raises(quit) ==
    quit = "raise" /\ ~Catches("Exception", "WebDriverException")

\* lines 388-391: the finally of _execute_once; an exception that leaves the
\* finally clause replaces the attempt's result
EoFinally ==
    /\ UNCHANGED <<attempt_from, gui, ui, timer>>
    /\ pc = "eo_finally"
    /\ pc' = "run_handle"
    /\ IF ~skip_preheat /\ driver # None
       THEN \E quit \in {"ok", "raise"} :
            /\ driver' = cleanup_driver(driver, quit)
            /\ driver_used' = TRUE
            /\ exc' = IF cleanup_raises(quit)
                      THEN Exc("WebDriverException", "quit")
                      ELSE exc
       ELSE UNCHANGED <<driver, driver_used, exc>>
    /\ UNCHANGED faults
    /\ UNCHANGED attemptFrame
    /\ UNCHANGED <<current_phase, phase_history, log_entries, flow_steps>>

\* run() without its except TicketRunnerStopped clause: a stop falls to the
\* except TicketRunnerError clause
run_handler_no_stopped(cls) ==
    IF Catches("TicketRunnerError", cls) THEN "runner_error"
    ELSE IF Catches("Exception", cls) THEN "exception"
    ELSE "none"

\* the except clause of run() (lines 282-296) that takes an exception of
\* class cls: the first one that catches it
run_handler(cls) ==
    IF Catches("TicketRunnerStopped", cls) THEN "stopped"
    ELSE IF Catches("TicketRunnerError", cls) THEN "runner_error"
    ELSE IF Catches("Exception", cls) THEN "exception"
    ELSE "none"

\* the stopped clause without its break
after_handler_no_break(h) == "recover"

\* the pc after the except clause: the stopped clause breaks out of the loop
after_handler(h) == IF h = "stopped" THEN "finalize" ELSE "recover"

\* lines 278-296: the attempt returned True, or one except clause of run()
RunHandle ==
    /\ UNCHANGED <<attempt_from, gui, ui, timer>>
    /\ pc = "run_handle"
    /\ \E sink \in SinkBehaviours :
        IF log_escapes(sink) THEN Escaped
        ELSE LET h == run_handler(exc.cls) IN
            /\ exc' = NoExc
            /\ UNCHANGED <<ret, calls, stop_signal, config, faults,
                           last_report, driver, max_retries, attempts,
                           skip_preheat, wait_left, nav_left, flow_steps,
                           driver_used>>
            /\ IF exc = NoExc
               THEN /\ success' = TRUE
                    /\ log_entries' = Log(log_entries, "success")
                    /\ pc' = "finalize"
                    /\ UNCHANGED <<current_phase, phase_history,
                                   failure_code, failure_message>>
               ELSE /\ success' = success
                    /\ pc' = after_handler(h)
                    /\ IF h = "stopped"
                       THEN /\ SetPhase(mark_stopped(Phase))
                            /\ failure_code' = USER_STOP
                            /\ failure_message' = exc.msg
                            /\ log_entries' = Log(log_entries, "warning")
                       ELSE IF h = "runner_error"
                       THEN /\ SetPhase(mark_failure(Phase))
                            /\ failure_code' = diagnose_failure(exc)
                            /\ failure_message' = exc.msg
                            /\ log_entries' = Log(log_entries, "error")
                       ELSE /\ SetPhase(mark_failure(Phase))
                            /\ failure_code' = UNEXPECTED
                            /\ failure_message' = exc.msg
                            /\ log_entries' = Log(log_entries, "error")

\* ------------------------------------------------ between two attempts
\* the recovery test without its budget condition
recovers_any_attempt(ok, n, limit, s) == ~ok /\ s # "true"

\* line 298: whether the recovery runs
recovers(ok, n, limit, s) == ~ok /\ n < limit /\ s # "true"

\* what no step of the recovery changes
recoverFrame == <<ret, calls, stop_signal, config, current_phase,
                  phase_history, last_report, max_retries, attempts, success,
                  failure_code, failure_message, skip_preheat, exc, wait_left,
                  flow_steps>>

\* lines 298-310: the test, and the session recreated when none is held
\* (create: _create_driver, settings: update_settings)
Recover ==
    /\ UNCHANGED <<attempt_from, gui, ui, timer>>
    /\ pc = "recover"
    /\ \E s \in IF ~success /\ attempts < max_retries
               THEN Samples(stop_signal) ELSE {"false"} :
        IF s = "escape" THEN Escaped
        ELSE IF ~recovers(success, attempts, max_retries, s)
        THEN /\ pc' = "loop"
             /\ UNCHANGED recoverFrame
             /\ UNCHANGED <<faults, log_entries, driver, nav_left, driver_used>>
        ELSE IF driver # None
        THEN /\ pc' = "nav_entry"
             /\ UNCHANGED recoverFrame
             /\ UNCHANGED <<faults, log_entries, driver, nav_left, driver_used>>
        ELSE \E sink \in SinkBehaviours, create \in CreateOutcomes,
                settings \in {"ok", "raise"} :
            IF log_escapes(sink) THEN Escaped
            ELSE /\ create = "ok" \/ MayFail
                 /\ settings = "ok" \/ (create = "ok" /\ MayFail)
                 /\ UNCHANGED recoverFrame
                 /\ UNCHANGED nav_left
                 /\ driver_used' = TRUE
                 /\ IF create = "raise"
                    THEN /\ driver' = None
                         /\ faults' = faults + 1
                         /\ log_entries' =
                                Log(Log(Log(log_entries, "info"), "error"), "info")
                         /\ pc' = "loop"
                    ELSE /\ driver' = "open"
                         /\ Counted(settings, "ok")
                         /\ log_entries' =
                                IF settings = "ok" THEN Log(log_entries, "info")
                                ELSE Log(Log(log_entries, "info"), "warning")
                         /\ pc' = "nav_entry"

\* line 316 after the recovery: the retry is announced
NavFinish(entries) ==
    /\ log_entries' = Log(entries, "info")
    /\ pc' = "loop"

\* lines 312-314 and 518-524: _navigate_to_homepage is entered; its first
\* stop check is outside its try, so run() catches that exception
NavEntry ==
    /\ UNCHANGED <<attempt_from, gui, ui, timer>>
    /\ pc = "nav_entry"
    /\ \E s \in Samples(stop_signal), sink \in SinkBehaviours :
        IF s = "escape" \/ log_escapes(sink) THEN Escaped
        ELSE /\ UNCHANGED recoverFrame
             /\ UNCHANGED <<faults, driver, driver_used>>
             /\ IF s = "true"
                THEN /\ NavFinish(Log(log_entries, "error"))
                     /\ UNCHANGED nav_left
                ELSE /\ pc' = "nav"
                     /\ log_entries' = Log(log_entries, "info")
                     /\ nav_left' = NavPresses

\* lines 526-541: one pass of the back-key loop; every exception raised in
\* it is caught at line 540 and logged as a warning
NavPress ==
    /\ UNCHANGED <<attempt_from, gui, ui, timer>>
    /\ pc = "nav"
    /\ nav_left > 0
    /\ \E s \in Samples(stop_signal), sink \in SinkBehaviours :
        IF log_escapes(sink) THEN Escaped
        ELSE /\ UNCHANGED recoverFrame
             /\ UNCHANGED driver
             /\ IF s # "false"
                THEN /\ NavFinish(Log(log_entries, "warning"))
                     /\ UNCHANGED <<faults, nav_left, driver_used>>
                ELSE /\ driver_used' = TRUE
                     /\ \E press \in {"ok", "raise"}, home \in BOOLEAN :
                        /\ press = "ok" \/ (MayFail /\ ~home)
                        /\ Counted(press, "ok")
                        /\ IF press = "raise"
                           THEN /\ NavFinish(Log(log_entries, "warning"))
                                /\ UNCHANGED nav_left
                           ELSE IF home
                           THEN /\ NavFinish(Log(log_entries, "success"))
                                /\ UNCHANGED nav_left
                           ELSE /\ nav_left' = nav_left - 1
                                /\ UNCHANGED <<pc, log_entries>>

\* the loop of line 526 ran out without the home page showing
NavExhausted ==
    /\ UNCHANGED <<attempt_from, gui, ui, timer>>
    /\ pc = "nav"
    /\ nav_left = 0
    /\ \E sink \in SinkBehaviours :
        IF log_escapes(sink) THEN Escaped
        ELSE /\ NavFinish(log_entries)
             /\ UNCHANGED recoverFrame
             /\ UNCHANGED <<faults, driver, nav_left, driver_used>>

\* ------------------------------------------------------- the run report
\* lines 321-328: the failure code the report gets
final_failure(ok, code, phase, s) ==
    IF ~ok /\ code = None
    THEN IF phase = STOPPED \/ s = "true" THEN USER_STOP ELSE MAX_RETRIES
    ELSE code

\* retries reported as the number of attempts
Retries_as_attempts(n) == n

\* retries of TicketRunMetrics.to_dict and of the statistics entry
Retries(n) == IF n >= 1 THEN n - 1 ELSE 0

\* lines 341-355: the report of the run
BuildReport(entries, code, message) ==
    [made |-> TRUE,
     attempts |-> attempts,
     retries |-> Retries(attempts),
     success |-> success,
     final_phase |-> current_phase,
     failure_reason |-> message,
     failure_code |-> code,
     logs |-> entries,
     phase_history |-> phase_history]

\* lines 319-357: the failure code, the statistics entry, the report, return
Finalize ==
    /\ UNCHANGED <<attempt_from, gui, ui, timer>>
    /\ pc = "finalize"
    /\ \E s \in IF ~success /\ failure_code = None /\ current_phase # STOPPED
               THEN Samples(stop_signal) ELSE {"false"},
          sink \in SinkBehaviours :
        IF s = "escape" \/ log_escapes(sink) THEN Escaped
        ELSE LET code == final_failure(success, failure_code, current_phase, s)
                 message == IF ~success /\ failure_code = None
                               /\ failure_message = None
                            THEN code ELSE failure_message
                 entries == Log(log_entries, "info")
             IN
             /\ failure_code' = code
             /\ failure_message' = message
             /\ log_entries' = entries
             /\ last_report' = BuildReport(entries, code, message)
             /\ ret' = IF success THEN "true" ELSE "false"
             /\ pc' = "idle"
             /\ UNCHANGED <<calls, stop_signal, config, faults, current_phase,
                            phase_history, driver, max_retries, attempts,
                            success, skip_preheat, exc, wait_left, nav_left,
                            flow_steps, driver_used>>

\* ---------------------------------------------------------------- preheat()
\* what preheat() leaves alone
preheatFrame == <<calls, stop_signal, config, last_report, max_retries,
                  attempts, success, failure_code, failure_message,
                  skip_preheat, exc, wait_left, nav_left>>

\* lines 182-184: preheat() is called and resets the phase and the log
PreheatCall ==
    /\ UNCHANGED <<attempt_from, gui, ui, timer>>
    /\ pc = "idle"
    /\ MayCall("preheat")
    /\ calls' = Append(calls, "preheat")
    /\ ret' = None
    /\ SetPhase(reset(Phase, log_entries).ps)
    /\ log_entries' = reset(Phase, log_entries).entries
    /\ flow_steps' = <<>>
    /\ driver_used' = FALSE
    /\ pc' = "ph_connect"
    /\ UNCHANGED <<stop_signal, config, faults, last_report, driver,
                   max_retries, attempts, success, failure_code,
                   failure_message, skip_preheat, exc, wait_left, nav_left>>

\* lines 186-192: the connect step; an exception of _create_driver leaves
\* preheat()
PreheatConnect ==
    /\ UNCHANGED <<attempt_from, gui, ui, timer>>
    /\ pc = "ph_connect"
    /\ \E sink \in SinkBehaviours, o \in CreateOutcomes :
        /\ o = "ok" \/ MayFail
        /\ Counted(o, "ok")
        /\ SetPhase(transition_to(Phase, CONNECTING))
        /\ flow_steps' = Append(flow_steps, "connect")
        /\ driver_used' = TRUE
        /\ log_entries' = IF log_escapes(sink) THEN Log(log_entries, "info")
                          ELSE Log(Log(log_entries, "info"), "step")
        /\ driver' = IF o = "ok" THEN "open" ELSE driver
        /\ IF o = "raise" \/ log_escapes(sink)
           THEN pc' = "idle" /\ ret' = "raised"
           ELSE pc' = "ph_settings" /\ ret' = None
        /\ UNCHANGED preheatFrame

\* lines 195-204: settings (a failure is a warning), then select location
\* when a city is configured; _ensure_driver raises when no session is held
PreheatSettings ==
    /\ UNCHANGED <<attempt_from, gui, ui, timer>>
    /\ pc = "ph_settings"
    /\ \E sink \in SinkBehaviours, settings \in {"ok", "raise"},
          city \in {"true", "false"} :
        IF log_escapes(sink) THEN Escaped
        ELSE /\ settings = "ok" \/ (driver # None /\ MayFail)
             /\ city = "true" \/ (driver # None /\ config.city
                                   /\ faults + (IF settings = "ok" THEN 0 ELSE 1)
                                        < MaxFaults)
             /\ faults' = faults + (IF settings = "ok" THEN 0 ELSE 1)
                                 + (IF city = "true" THEN 0 ELSE 1)
             /\ LET ps == transition_to(Phase, APPLYING_SETTINGS)
                    applied == IF settings = "ok" THEN Log(log_entries, "step")
                               ELSE Log(Log(log_entries, "step"), "warning")
                    steps == Append(flow_steps, "apply_settings")
                IN
                /\ UNCHANGED preheatFrame
                /\ UNCHANGED <<driver, driver_used>>
                /\ IF ~config.city
                   THEN /\ SetPhase(ps)
                        /\ log_entries' = applied
                        /\ flow_steps' = steps
                        /\ pc' = "ph_search"
                        /\ UNCHANGED ret
                   ELSE /\ SetPhase(transition_to(ps, SELECTING_CITY))
                        /\ log_entries' =
                               IF city = "true" \/ driver = None
                               THEN Log(applied, "step")
                               ELSE Log(Log(applied, "step"), "warning")
                        /\ flow_steps' = Append(steps, "select_city")
                        /\ IF driver = None
                           THEN pc' = "idle" /\ ret' = "raised"
                           ELSE pc' = "ph_search" /\ UNCHANGED ret

\* _search_event(keyword, click_result=False): the keyword typed and the
\* search sent, the input not found in time, or an exception that is no
\* TimeoutException
PreheatSearchOutcomes ==
    {[id |-> "true", logs |-> <<"info", "info">>, ends |-> "true"],
     [id |-> "input_timeout", logs |-> <<"error">>, ends |-> "false"],
     [id |-> "input_error", logs |-> <<>>, ends |-> "raise"],
     [id |-> "send_error", logs |-> <<"info">>, ends |-> "raise"]}

\* preheat() that only warns when the search returns False
preheat_result_lenient(ends) ==
    IF ends = "raise" THEN "raised" ELSE "preheated"

\* lines 208-213: how preheat() ends after _search_event ended as ends
preheat_result(ends) ==
    IF ends = "true" THEN "preheated" ELSE "raised"

\* lines 207-213: search target when a keyword is configured; preheat()
\* raises when the search does not succeed and returns with the session open
PreheatSearch ==
    /\ UNCHANGED <<attempt_from, gui, ui, timer>>
    /\ pc = "ph_search"
    /\ \E sink \in SinkBehaviours :
        IF log_escapes(sink) THEN Escaped
        ELSE /\ UNCHANGED preheatFrame
             /\ UNCHANGED <<driver, driver_used>>
             /\ pc' = "idle"
             /\ IF ~config.keyword
                THEN /\ log_entries' = Log(log_entries, "success")
                     /\ ret' = "preheated"
                     /\ UNCHANGED <<faults, current_phase, phase_history,
                                    flow_steps>>
                ELSE /\ SetPhase(transition_to(Phase, SEARCHING_EVENT))
                     /\ flow_steps' = Append(flow_steps, "search_event")
                     /\ IF driver = None
                        THEN /\ log_entries' = Log(log_entries, "step")
                             /\ ret' = "raised"
                             /\ UNCHANGED faults
                        ELSE \E o \in PreheatSearchOutcomes :
                            /\ o.id = "true" \/ MayFail
                            /\ Counted(o.id, "true")
                            /\ log_entries' =
                                   Log(log_entries, "step") \o o.logs
                                   \o (IF o.ends = "true" THEN <<"success">>
                                       ELSE <<>>)
                            /\ ret' = preheat_result(o.ends)

\* damai_gui.py clears app_should_stop when a run has ended
ClearStop ==
    /\ UNCHANGED <<attempt_from, gui, ui, timer>>
    /\ pc = "idle"
    /\ stop_signal = "true"
    /\ stop_signal' = "false"
    /\ UNCHANGED <<pc, ret, calls, config, faults, current_phase,
                   phase_history, log_entries, last_report, driver,
                   max_retries, attempts, success, failure_code,
                   failure_message, skip_preheat, exc, wait_left, nav_left,
                   flow_steps, driver_used>>

Next ==
    \/ RequestStop
    \/ ClearStop
    \/ \E n \in 0..MaxRetries, slices \in 0..MaxSlices : RunCall(n, slices)
    \/ WaitEntry
    \/ WaitSlice
    \/ WaitArrive
    \/ LoopTest
    \/ EoEntry
    \/ EoSettings
    \/ PfCity
    \/ PfSearch
    \/ PfTheme
    \/ PfThemeDialog
    \/ PfTap
    \/ PfDate
    \/ PfSession
    \/ PfPrice
    \/ PfQuantity
    \/ PfConfirm
    \/ EoFinally
    \/ RunHandle
    \/ Recover
    \/ NavEntry
    \/ NavPress
    \/ NavExhausted
    \/ Finalize
    \/ PreheatCall
    \/ PreheatConnect
    \/ PreheatSettings
    \/ PreheatSearch

Spec == Init /\ [][Next]_vars

\* the steps run() takes by itself once it was called
RunStep ==
    \/ WaitEntry
    \/ WaitSlice
    \/ WaitArrive
    \/ LoopTest
    \/ EoEntry
    \/ EoSettings
    \/ PfCity
    \/ PfSearch
    \/ PfTheme
    \/ PfThemeDialog
    \/ PfTap
    \/ PfDate
    \/ PfSession
    \/ PfPrice
    \/ PfQuantity
    \/ PfConfirm
    \/ EoFinally
    \/ RunHandle
    \/ Recover
    \/ NavEntry
    \/ NavPress
    \/ NavExhausted
    \/ Finalize

\* every driver call returns or raises and every sleep ends: a call of run()
\* that can take a step takes one
LiveSpec == Spec /\ WF_vars(RunStep)

\* ------------------------------------------------------------- properties
\* the last public call made on the Runner is run()
RunCalled == Len(calls) > 0 /\ calls[Len(calls)] = "run"

\* run() is in progress
Running == RunCalled /\ pc # "idle"

\* run() has returned a boolean
RunReturned == RunCalled /\ pc = "idle" /\ ret \in {"true", "false"}

\* the control points inside an attempt, up to the except clauses of run()
AttemptPcs ==
    {"eo_entry", "eo_settings", "pf_city", "pf_search", "pf_theme",
     "pf_theme_dialog", "pf_tap", "pf_date", "pf_session", "pf_price",
     "pf_quantity", "pf_confirm", "eo_finally", "run_handle"}

\* C1: the attempts started never exceed m = max(1, max_retries); once an
\* attempt has succeeded no further attempt starts, so a run whose first
\* attempt succeeds returns true with attempts = 1 in its report.
C1_AttemptsWithinBudget ==
    /\ [](attempts <= ClampRetries(max_retries))
    /\ [][(RunCalled /\ success) => attempts' = attempts]_vars
    /\ [][(pc = "run_handle" /\ success' /\ attempts = 1)
            => (pc' = "finalize" /\ attempts' = 1)]_vars
    /\ [](RunReturned /\ ret = "true" => last_report.attempts = attempts)

\* a run with a budget of more than one attempt returned true after one
C1_FirstAttemptSuccess ==
    RunReturned /\ ret = "true" /\ attempts = 1 /\ max_retries > 1

\* C2: run() never propagates an exception, whatever the driver calls, the
\* logger sink and the stop predicate do: a run() call never ends "raised".
C2_RunNeverRaises == RunCalled => ret # "raised"

\* run() returned a boolean after a flow step raised an exception of the
\* driver
C2_ReturnedAfterDriverException ==
    RunReturned /\ failure_message = PhaseException("driver")

\* C3: after every return of run(), on every exit path, get_last_report()
\* gives a report built by that run() call.
C3_ReportAfterEveryReturn == RunReturned => last_report.made

\* C4: once the stop signal is true while run() is in progress, no further
\* step of the attempt is executed and no further attempt is started.
C4_NoStepAfterStop ==
    [][(Running /\ stop_signal = "true")
         => (flow_steps' = flow_steps /\ attempts' = attempts)]_vars

\* C5: a cooperative stop raised during an attempt reaches the except
\* clauses of run(), which mark the phase Stopped, record USER_STOP with
\* success false and leave the attempt loop; no attempt starts after that,
\* and the report shows the stop.
C5_StopRaisedEndsRun ==
    /\ [](Catches("TicketRunnerStopped", exc.cls)
            => pc \in {"eo_finally", "run_handle"})
    /\ [][(pc = "run_handle" /\ pc' # pc
            /\ Catches("TicketRunnerStopped", exc.cls))
            => (/\ current_phase' = STOPPED
                /\ failure_code' = USER_STOP
                /\ success' = FALSE
                /\ pc' = "finalize")]_vars
    /\ [][pc = "finalize"
            => (attempts' = attempts /\ pc' \in {"finalize", "idle"})]_vars
    /\ [](RunReturned /\ last_report.made /\ current_phase = STOPPED
            => (/\ last_report.final_phase = STOPPED
                /\ last_report.failure_code = USER_STOP
                /\ ~last_report.success))

\* an attempt was stopped while the budget allowed a further one, and the
\* run is at its report
C5_StoppedAttempt ==
    /\ pc = "finalize"
    /\ current_phase = STOPPED
    /\ failure_code = USER_STOP
    /\ attempts >= 1
    /\ attempts < max_retries

\* C6: when the stop signal is true during the scheduled-start wait, run()
\* returns false with phase Stopped, zero attempts and no driver call.
C6_StopDuringWait ==
    [][(pc = "wait" /\ stop_signal = "true")
         => (/\ pc' = "idle"
             /\ ret' = "false"
             /\ current_phase' = STOPPED
             /\ attempts' = 0
             /\ driver_used' = FALSE)]_vars

\* C7: a run that used all its attempts without success while the stop
\* signal was never true reports success false and MAX_RETRIES.
C7_ExhaustedReportsMaxRetries ==
    [][(/\ pc = "finalize"
        /\ pc' = "idle"
        /\ ~success
        /\ attempts = max_retries
        /\ stop_signal = "false")
         => (/\ last_report'.made
             /\ ~last_report'.success
             /\ last_report'.failure_code = MAX_RETRIES)]_vars

\* the messages of the exceptions a connection failure ends an attempt with:
\* the session could not be opened, or was lost during a flow step
ConnectionFailures == {"connect", PhaseException("session_lost")}

\* C8: an attempt that ends by a connection failure, in whatever phase, is
\* classified APPIUM_CONNECTION.
C8_ConnectionFailureClassified ==
    [][(pc = "run_handle" /\ pc' # pc /\ exc.msg \in ConnectionFailures)
         => failure_code' = APPIUM_CONNECTION]_vars

\* C9: an attempt in which a flow step raised an exception that is no
\* TicketRunnerError is classified UNEXPECTED, and the run goes on to the
\* next attempt.
C9_ForeignExceptionUnexpected ==
    [][(pc = "run_handle" /\ pc' # pc
        /\ exc.msg \in {PhaseException("driver"), PhaseException("session_lost")})
         => (failure_code' = UNEXPECTED /\ pc' = "recover")]_vars

\* C10, as stated: within one run(), once the current phase is Completed,
\* Stopped or Failed it does not change.
C10_TerminalPhasesStay ==
    [][(Running /\ current_phase \in {COMPLETED, STOPPED, FAILED})
         => current_phase' = current_phase]_vars

\* C10, amended: within one run(), once the current phase is Completed or
\* Stopped it does not change; Failed is left only by a later attempt of
\* the run (its first phase transition, or its stop).
C10_CompletedStoppedStay ==
    /\ [][(Running /\ current_phase \in {COMPLETED, STOPPED})
            => current_phase' = current_phase]_vars
    /\ [][(Running /\ current_phase = FAILED /\ current_phase' # FAILED)
            => (pc \in AttemptPcs /\ attempts > 1)]_vars

\* a run returned Completed after an earlier attempt of it had Failed
C10_CompletedAfterFailed ==
    /\ RunReturned
    /\ current_phase = COMPLETED
    /\ \E i \in 1..Len(phase_history) : phase_history[i] = FAILED

\* s is a prefix of t
IsPrefix(s, t) ==
    Len(s) <= Len(t) /\ \A i \in 1..Len(s) : s[i] = t[i]

\* the phases that end a run
Terminal == {COMPLETED, STOPPED, FAILED}

\* C11: the phase history always starts with Init, and once run() has
\* returned its last element, and the final phase of the report, is
\* Completed, Stopped or Failed.
C11_HistoryEndsTerminal ==
    /\ Len(phase_history) >= 1
    /\ phase_history[1] = INIT
    /\ RunReturned
         => (/\ phase_history[Len(phase_history)] \in Terminal
             /\ last_report.made => last_report.final_phase \in Terminal)

\* C12: no phase occurs twice among the entries one attempt appends to the
\* phase history (so none is left and entered again within an attempt).
C12_NoPhaseTwiceInAttempt ==
    \A i, j \in (attempt_from + 1)..Len(phase_history) :
        i < j => phase_history[i] # phase_history[j]

\* a later attempt of the run restarted from Connecting
C12_RestartFromConnecting ==
    /\ RunCalled
    /\ \E i, j \in 1..Len(phase_history) :
        /\ i < j
        /\ j > attempt_from
        /\ phase_history[i] = CONNECTING
        /\ phase_history[j] = CONNECTING

\* C13, as stated: every report has retries = attempts - 1.
C13_RetriesIsAttemptsMinusOne ==
    last_report.made => last_report.retries + 1 = last_report.attempts

\* C13, amended: every report has retries = attempts - 1 when at least one
\* attempt was started and retries = 0 when none was; retries >= 0.
C13_RetriesClamped ==
    last_report.made
      => (/\ last_report.retries >= 0
          /\ last_report.attempts >= 1
               => last_report.retries + 1 = last_report.attempts
          /\ last_report.attempts = 0 => last_report.retries = 0)

\* a report of a run that retried
C13_ReportAfterRetry ==
    RunReturned /\ last_report.made /\ last_report.attempts = 2
      /\ last_report.retries = 1

\* C14: every run() and preheat() call starts by emptying the log and
\* resetting the phase history to [Init] with phase Init; within a call both
\* only grow; the report holds the log and the history as they are at the
\* return, so it holds nothing from before the call.
C14_ResetAtEveryCall ==
    /\ [][calls' # calls
            => (/\ log_entries' = <<>>
                /\ phase_history' = <<INIT>>
                /\ current_phase' = INIT)]_vars
    /\ [][calls' = calls
            => (/\ IsPrefix(log_entries, log_entries')
                /\ IsPrefix(phase_history, phase_history'))]_vars
    /\ [](RunReturned /\ last_report.made
            => (/\ last_report.logs = log_entries
                /\ last_report.phase_history = phase_history))

\* run() returned a report after a preheat() that had logged and moved phase
C14_ReportAfterPreheat ==
    /\ RunReturned
    /\ last_report.made
    /\ calls = <<"preheat", "run">>
    /\ last_report.phase_history[1] = INIT
    /\ \A i \in 1..Len(last_report.phase_history) :
         last_report.phase_history[i] \notin {CONNECTING, APPLYING_SETTINGS}

\* the sink that never raises
QuietSink == [first |-> "ok", second |-> "ok"]

\* what one _log call leaves behind: the entries and whether it raised
LogCall(entries, level, sink) ==
    [entries |-> Log(entries, level), raised |-> log_escapes(sink)]

\* C15: a _log call with a sink that raises leaves exactly what the same
\* call with a sink that never raises leaves (the entry recorded, nothing
\* raised), and no state of a run() carries an exception of the sink: the
\* run never ends raised and no attempt fails by the sink.
C15_SinkNeverChangesRun ==
    /\ \A sink \in SinkBehaviours, level \in LogLevel :
        LogCall(log_entries, level, sink) = LogCall(log_entries, level, QuietSink)
    /\ RunCalled
         => (/\ ret # "raised"
             /\ exc.cls # "SinkError"
             /\ failure_message # "sink")

\* run() returned True with entries recorded by _log calls whose sink may
\* have raised at every call
C15_LoggedUnderRaisingSink ==
    /\ RunReturned
    /\ ret = "true"
    /\ Len(log_entries) >= 2
    /\ \E sink \in SinkBehaviours :
        /\ sink.first # "ok"
        /\ ~LogCall(log_entries, "info", sink).raised

\* ------------------------------------------- the scheduled start of the GUI
\* CountdownTimer.stop
stop(g) == [g EXCEPT !.running = FALSE, !.timer_id = FALSE]

\* on_countdown_update of damai_gui.py: the preheat thread is started once,
\* when the remaining time is within the warm-up seconds
on_countdown_update(g, remaining) ==
    IF g.warmup > 0 /\ remaining <= g.warmup /\ ~g.preheat_executed
    THEN [g EXCEPT !.preheat_executed = TRUE, !.preheat_thread = "checks"]
    ELSE g

\* on_countdown_finish of damai_gui.py: the run thread is started on the
\* Runner that app_runner holds, when it holds one
on_countdown_finish(g) ==
    LET g1 == [g EXCEPT !.preheat_executed = FALSE,
                        !.finished = g.finished + 1]
    IN IF g1.app_runner # 0 THEN [g1 EXCEPT !.run_thread = "started"]
       ELSE g1

\* CountdownTimer._tick
tick(g) ==
    IF ~g.running THEN g
    ELSE LET shown == IF g.remaining # g.displayed
                      THEN on_countdown_update(
                               [g EXCEPT !.displayed = g.remaining],
                               g.remaining)
                      ELSE g
         IN IF g.remaining <= 0
            THEN on_countdown_finish([shown EXCEPT !.running = FALSE])
            ELSE [shown EXCEPT !.timer_id = TRUE]

\* CountdownTimer.start
start(g, duration) ==
    tick([stop(g) EXCEPT !.remaining = duration, !.running = TRUE,
                         !.displayed = -1])

\* the scheduled start is requested with a countdown of duration seconds
\* and the warm-up seconds of the form
ScheduleStart(duration, warmup) ==
    /\ ~gui.scheduled
    /\ gui' = start([gui EXCEPT !.scheduled = TRUE, !.warmup = warmup,
                                !.preheat_executed = FALSE], duration)
    /\ UNCHANGED <<runnerVars, ui, timer>>

\* a second of the countdown passes
Elapse ==
    /\ gui.running
    /\ gui.remaining > 0
    /\ gui' = [gui EXCEPT !.remaining = gui.remaining - 1]
    /\ UNCHANGED <<runnerVars, ui, timer>>

\* the Tk loop runs the pending _tick callback
TimerFire ==
    /\ gui.timer_id
    /\ gui' = tick([gui EXCEPT !.timer_id = FALSE])
    /\ UNCHANGED <<runnerVars, ui, timer>>

\* run_preheat, damai_gui.py 1992-2004: the checks fail, or the Runner is
\* constructed, stored in app_runner and its preheat() called
PreheatBegin ==
    /\ gui.preheat_thread = "checks"
    /\ \/ gui' = [gui EXCEPT !.preheat_thread = "failed", !.idle_stop = TRUE]
       \/ gui' = [gui EXCEPT !.preheat_thread = "preheating",
                             !.created = gui.created + 1,
                             !.app_runner = gui.created + 1,
                             !.preheat_on = gui.created + 1]
    /\ UNCHANGED <<runnerVars, ui, timer>>

\* run_preheat, damai_gui.py 2004-2012: preheat() returns or raises
PreheatEnd ==
    /\ gui.preheat_thread = "preheating"
    /\ \/ gui' = [gui EXCEPT !.preheat_thread = "done", !.preheat_on = 0]
       \/ gui' = [gui EXCEPT !.preheat_thread = "failed", !.preheat_on = 0,
                             !.idle_stop = TRUE]
    /\ UNCHANGED <<runnerVars, ui, timer>>

\* the Tk loop runs the after_idle callback of a failed preheat:
\* countdown_timer.stop()
IdleStop ==
    /\ gui.idle_stop
    /\ gui' = stop([gui EXCEPT !.idle_stop = FALSE])
    /\ UNCHANGED <<runnerVars, ui, timer>>

\* _run_preheated_app_runner, damai_gui.py 3621-3627: returns when app_runner
\* is None, calls run() on it otherwise
RunThreadBegin ==
    /\ gui.run_thread = "started"
    /\ gui' = IF gui.app_runner = 0
              THEN [gui EXCEPT !.run_thread = "done"]
              ELSE [gui EXCEPT !.run_thread = "running",
                               !.run_on = gui.app_runner]
    /\ UNCHANGED <<runnerVars, ui, timer>>

\* _run_preheated_app_runner, damai_gui.py 3627-3646: run() has ended and
\* the finally clause drops app_runner
RunThreadEnd ==
    /\ gui.run_thread = "running"
    /\ gui' = [gui EXCEPT !.run_thread = "done", !.run_on = 0,
                          !.app_runner = 0]
    /\ UNCHANGED <<runnerVars, ui, timer>>

GuiNext ==
    \/ \E duration \in 0..MaxCountdown, warmup \in 0..MaxWarmup :
           ScheduleStart(duration, warmup)
    \/ Elapse
    \/ TimerFire
    \/ PreheatBegin
    \/ PreheatEnd
    \/ IdleStop
    \/ RunThreadBegin
    \/ RunThreadEnd

\* the scheduled start of the GUI, the Runner's own steps left out
GuiSpec == Init /\ [][GuiNext]_vars

\* preheat() and run() execute on the same Runner instance
PreheatAndRunTogether ==
    /\ gui.preheat_thread = "preheating"
    /\ gui.run_thread = "running"
    /\ gui.preheat_on = gui.run_on

\* C19: in the scheduled start of the GUI the run thread never executes
\* run() on a Runner while the preheat thread executes preheat() on it.
C19_NoRunDuringPreheat ==
    ~PreheatAndRunTogether

\* the call made last
LastCall == IF calls = <<>> THEN None ELSE calls[Len(calls)]

\* the phases of the pre-heat steps
PreheatPhases ==
    {INIT, CONNECTING, APPLYING_SETTINGS, SELECTING_CITY, SEARCHING_EVENT}

\* C16: preheat() performs only connect, apply settings, select location
\* (when a city is configured) and search (when a keyword is configured) and
\* enters no phase after SearchingEvent; when it returns normally the
\* session is open; when the configured search does not succeed it raises.
C16_PreheatStopsAtSearch ==
    /\ [](LastCall = "preheat"
            => (/\ \A i \in 1..Len(phase_history) :
                     phase_history[i] \in PreheatPhases
                /\ \A i \in 1..Len(flow_steps) :
                     /\ flow_steps[i] \in {"connect", "apply_settings",
                                           "select_city", "search_event"}
                     /\ flow_steps[i] = "select_city" => config.city
                     /\ flow_steps[i] = "search_event" => config.keyword
                /\ ret = "preheated" => driver = "open"))
    /\ [][pc = "ph_search" /\ pc' = "idle" /\ config.keyword
            /\ faults' > faults => ret' = "raised"]_vars

\* preheat() returned normally after all four steps
C16_PreheatedWithSearch ==
    /\ LastCall = "preheat"
    /\ ret = "preheated"
    /\ driver = "open"
    /\ flow_steps = <<"connect", "apply_settings", "select_city",
                      "search_event">>
    /\ current_phase = SEARCHING_EVENT

\* C17: an attempt that is not pre-heated has closed its session when it
\* ends, however it ends; an attempt on a pre-heated session holds the open
\* session throughout and does not close it; every attempt ends through the
\* finally clause of _execute_once.
C17_OwnSessionClosed ==
    /\ [](pc = "run_handle" /\ ~skip_preheat => driver = None)
    /\ [](pc \in AttemptPcs /\ skip_preheat => driver = "open")
    /\ [][pc = "eo_finally" /\ pc' # pc
            => driver' = (IF skip_preheat THEN driver ELSE None)]_vars
    /\ [][pc' = "run_handle" /\ pc # "run_handle" => pc = "eo_finally"]_vars

\* an attempt that opened its own session was stopped and has closed it
C17_StoppedAttemptClosed ==
    /\ pc = "run_handle"
    /\ ~skip_preheat
    /\ exc = StoppedExc
    /\ \E i \in 1..Len(flow_steps) : flow_steps[i] = "apply_settings"
    /\ driver = None

\* preheat() was called on this Runner
Preheated == \E i \in 1..Len(calls) : calls[i] = "preheat"

\* C18: an attempt runs in the mode that skips connect, settings, location
\* and search input only when preheat() was called before the run(); in a
\* run() not preceded by preheat() every attempt, retries included, is in
\* the full mode that starts from Connecting.
C18_SkipOnlyAfterPreheat ==
    pc \in AttemptPcs /\ skip_preheat => Preheated

\* C20: a failure of quit() while the session is closed never changes the
\* attempt's outcome: closing with a failing quit() leaves what closing with
\* a working quit() leaves, the step that closes keeps the attempt's result
\* (the exception in flight or none), success flag, failure code and
\* message, and the reference is cleared.
C20_CloseFailureSwallowed ==
    /\ [](pc = "eo_finally"
            => (/\ ~cleanup_raises("raise")
                /\ cleanup_driver(driver, "raise") = cleanup_driver(driver, "ok")))
    /\ [][pc = "eo_finally" /\ pc' # pc
            => (/\ exc' = exc
                /\ success' = success
                /\ failure_code' = failure_code
                /\ failure_message' = failure_message
                /\ ~skip_preheat => driver' = None)]_vars

\* an attempt that opened its session completed the flow and closed the
\* session, by a step on which quit() may have failed
C20_ClosedAfterCompletedFlow ==
    /\ pc = "run_handle"
    /\ ~skip_preheat
    /\ exc = NoExc
    /\ current_phase = COMPLETED
    /\ driver = None
    /\ ~cleanup_raises("raise")

\* the control points of the steps whose failure the flow raises for
FatalStepPcs ==
    {"pf_search", "pf_tap", "pf_session", "pf_price", "pf_confirm"}

\* the control points of the steps whose failure the flow only logs
NonFatalStepPcs == {"eo_settings", "pf_city", "pf_date", "pf_quantity"}

\* a fatal step that fails ends the attempt as a flow failure in phase Failed
C21_FatalAborts ==
    [][(pc \in FatalStepPcs /\ pc' = "eo_finally"
          /\ exc' \notin {NoExc, StoppedExc})
          => (exc'.cls = "TicketRunnerError" /\ current_phase' = FAILED)]_vars

\* an attempt starts only at the loop test, with budget left and no stop
\* requested, and a failed attempt goes back to the loop test
C21_RetryWithinBudget ==
    /\ [][(pc' = "eo_entry" /\ pc # "eo_entry")
            => (pc = "loop" /\ attempts < max_retries
                /\ stop_signal # "true")]_vars
    /\ [][(pc = "run_handle" /\ pc' # pc /\ exc \notin {NoExc, StoppedExc})
            => (pc' \in {"recover", "loop"} /\ current_phase' = FAILED)]_vars

\* a step whose failure is only logged ends the attempt by a stop alone
C21_NonFatalContinues ==
    [][(pc \in NonFatalStepPcs /\ pc' = "eo_finally")
          => exc' = StoppedExc]_vars

\* C21: a failure of a fatal step (search, open purchase, session, price,
\* confirm) ends only the current attempt, in phase Failed, and a further
\* attempt starts only with attempts < max_retries and no stop requested; a
\* non-fatal step (settings, location, date, quantity) never ends the
\* attempt.
C21_FatalAbortsNonFatalContinues ==
    C21_FatalAborts /\ C21_RetryWithinBudget /\ C21_NonFatalContinues

\* the steps of the flow are gated: from connect on, leaving out the
\* settings step, no step executes once the stop is requested
C22_FlowStepsGated ==
    [][(pc \in AttemptPcs \ {"eo_settings"}
          /\ Len(flow_steps') > Len(flow_steps))
          => stop_signal = "false"]_vars

\* C22: within an attempt every step is preceded by a sample of the stop
\* signal and is not executed when the sample is true: no step of an
\* attempt executes once the stop is requested.
C22_EveryStepGated ==
    [][(pc \in AttemptPcs /\ Len(flow_steps') > Len(flow_steps))
          => stop_signal = "false"]_vars

\* C23: a run() that ends without success with budget left, after at least
\* one attempt, ended because the stop was observed; its report has failure
\* code USER_STOP and final phase Stopped, also when an earlier attempt failed.
C23_StopOutranksFailure ==
    (/\ RunReturned
     /\ last_report.made
     /\ ~last_report.success
     /\ last_report.attempts >= 1
     /\ last_report.attempts < max_retries)
      => (/\ last_report.failure_code = USER_STOP
          /\ last_report.final_phase = STOPPED)

\* the control points of the home navigation
NavPcs == {"nav_entry", "nav"}

C25_NoSessionAfterRun ==
    (RunReturned /\ ~Preheated) => driver = None

\* C26: every run() call returns, given that each driver call returns or
\* raises and each sleep ends.
C26_RunTerminates ==
    Running ~> ~Running

\* run() returned after a scheduled wait and after using up its attempts
C26_ReturnedAfterAllAttempts ==
    /\ RunReturned
    /\ last_report.made
    /\ ~last_report.success
    /\ last_report.attempts = MaxRetries

\* the order of the steps the phase sequence is specified with
StepOrder ==
    <<"connect", "apply_settings", "select_city", "search_event",
      "tap_purchase", "select_theme_dialog", "select_date", "select_session",
      "select_price", "select_quantity", "confirm_purchase">>

\* the place of a step in StepOrder
Rank(step) == CHOOSE i \in 1..Len(StepOrder) : StepOrder[i] = step

\* the steps of StepOrder
OrderedSteps == {StepOrder[i] : i \in 1..Len(StepOrder)}

\* C27: the steps of an attempt execute in the order connect, apply
\* settings, select location, search target, open purchase dialog, resolve
\* viewer dialog, select date, select session, select price, select
\* quantity, confirm purchase.
C27_StepsInSpecifiedOrder ==
    pc \in AttemptPcs
      => \A i, j \in 1..Len(flow_steps) :
            (/\ i < j
             /\ flow_steps[i] \in OrderedSteps
             /\ flow_steps[j] \in OrderedSteps)
              => Rank(flow_steps[i]) < Rank(flow_steps[j])

\* C28: when a date is configured and the date step does not select it
\* (calendar, month or day not found, or an error of the step), the attempt
\* ends at the date step with a flow failure instead of going on to the
\* session step.
C28_ConfiguredDateFailureFatal ==
    [][(pc = "pf_date" /\ pc' # pc /\ config.date /\ faults' > faults)
          => (/\ pc' = "eo_finally"
              /\ exc'.cls = "TicketRunnerError"
              /\ current_phase' = FAILED)]_vars

\* C29: the session step and the price step end the attempt with their flow
\* failure only when the index is configured; with no index configured the
\* step does not fail the attempt.
C29_UnsetIndexDoesNotFail ==
    /\ exc.msg = "session_failed" => config.session_index
    /\ exc.msg = "price_failed" => config.price_index

\* the viewer-dialog step has ended and the flow goes on
ThemeStepDone == pc = "pf_theme_dialog" /\ pc' = "pf_tap"

\* C30, as stated: the viewer-dialog step never ends the attempt by a
\* failure, and exactly one back key press is attempted in it on every path.
C30_AlwaysOneBackPress ==
    [][(pc = "pf_theme_dialog" /\ pc' # pc)
          => \/ pc' = "eo_finally" /\ exc' = StoppedExc
             \/ /\ ThemeStepDone
                /\ exc' = NoExc
                /\ flow_steps' = flow_steps
                                   \o <<"select_theme_dialog", "press_back">>]_vars

\* C30, amended: the viewer-dialog step never ends the attempt by a failure
\* (only a stop seen by its first check ends it); no back key press is
\* attempted when the dialog is absent, exactly one when the dialog was
\* handled without a failure, and at most one when a failure was logged.
C30_BackPressAfterDialogOnly ==
    [][(pc = "pf_theme_dialog" /\ pc' # pc)
          => \/ pc' = "eo_finally" /\ exc' = StoppedExc
                  /\ flow_steps' = flow_steps
             \/ /\ ThemeStepDone
                /\ exc' = NoExc
                /\ current_phase' = current_phase
                /\ IF faults' = faults
                   THEN flow_steps' = Append(flow_steps, "select_theme_dialog")
                   ELSE IF log_entries'[Len(log_entries')] # "error"
                   THEN flow_steps' = flow_steps
                            \o <<"select_theme_dialog", "press_back">>
                   ELSE flow_steps' \in
                          {Append(flow_steps, "select_theme_dialog"),
                           flow_steps \o <<"select_theme_dialog",
                                           "press_back">>}]_vars

\* the viewer dialog was absent and the flow went on without a back key press
C30_AbsentDialogNoBackPress ==
    /\ pc = "pf_tap"
    /\ Len(flow_steps) >= 1
    /\ flow_steps[Len(flow_steps)] = "select_theme_dialog"
    /\ faults = 0

\* C31: during the scheduled wait every sleep slice follows a stop sample
\* that was not true, no attempt has started and no driver call was made,
\* and the wait is left for the attempt loop only when start_time is reached.
C31_WaitSamplesStop ==
    /\ [](pc \in {"wait_entry", "wait"}
            => (attempts = 0 /\ ~driver_used /\ flow_steps = <<>>))
    /\ [][(pc = "wait" /\ wait_left' # wait_left) => stop_signal = "false"]_vars
    /\ [][(pc = "wait" /\ pc' = "loop") => (wait_left = 0 /\ attempts' = 0)]_vars
    /\ [][attempts' > attempts => pc = "loop"]_vars

\* the wait has slept up to start_time and nothing was attempted yet
C31_WaitedToStartTime ==
    /\ Running
    /\ pc = "wait"
    /\ wait_left = 0
    /\ attempts = 0
    /\ ~driver_used

\* C32: when run() returns true, its report has neither a failure code nor a
\* failure reason, also when an earlier attempt of the run failed.
C32_SuccessReportHasNoFailure ==
    (RunReturned /\ ret = "true" /\ last_report.made)
      => (/\ last_report.failure_code = None
          /\ last_report.failure_reason = None)

\* p occurs in the phase sequence h
Occurs(p, h) == \E i \in 1..Len(h) : h[i] = p

\* C33: run() returns true exactly when its report has success true and
\* final phase Completed, and Completed does not occur in the phase history
\* of a run that returned false.
C33_TrueIffCompleted ==
    RunReturned
      => (/\ ret = "true"
               <=> (/\ last_report.made
                    /\ last_report.success
                    /\ last_report.final_phase = COMPLETED)
          /\ ret = "true" => current_phase = COMPLETED
          /\ ret = "false" => ~Occurs(COMPLETED, phase_history)
          /\ (ret = "false" /\ last_report.made)
               => (/\ ~last_report.success
                   /\ ~Occurs(COMPLETED, last_report.phase_history)))

\* run() returned true after a failed first attempt
C33_TrueAfterRetry ==
    /\ RunReturned
    /\ ret = "true"
    /\ last_report.made
    /\ last_report.final_phase = COMPLETED
    /\ Occurs(FAILED, last_report.phase_history)

\* C34: transition_to(p) changes nothing when p is the current phase and
\* otherwise makes p current and appends it; so in every state the current
\* phase is the last element of the history, no two adjacent elements of the
\* history are equal, and within one call the history grows by appending.
C34_TransitionContract ==
    /\ [](\A p \in RunnerPhase :
            transition_to(Phase, p) =
                IF p = current_phase THEN Phase
                ELSE [cur |-> p, hist |-> Append(phase_history, p)])
    /\ [](/\ Len(phase_history) >= 1
          /\ current_phase = phase_history[Len(phase_history)]
          /\ \A i \in 1..(Len(phase_history) - 1) :
                phase_history[i] # phase_history[i + 1])
    /\ [][calls' = calls
            => (/\ IsPrefix(phase_history, phase_history')
                /\ Len(phase_history') <= Len(phase_history) + 2)]_vars

\* the purchase step asked for the phase the viewer-dialog step had already
\* entered, and the history recorded it once
C34_RepeatedPhaseRecordedOnce ==
    /\ pc = "pf_date"
    /\ current_phase = TAPPING_PURCHASE
    /\ flow_steps[Len(flow_steps)] = "tap_purchase"
    /\ phase_history[Len(phase_history)] = TAPPING_PURCHASE
    /\ phase_history[Len(phase_history) - 1] # TAPPING_PURCHASE

\* C35, as stated: mark_failure and mark_stopped change nothing when the
\* current phase is Completed, Stopped or Failed, and otherwise transition
\* to Failed, respectively Stopped; so the except clauses of run(), which
\* call them, leave a terminal phase as it is.
C35_MarkKeepsTerminal ==
    /\ [](current_phase \in Terminal
            => (mark_failure(Phase) = Phase /\ mark_stopped(Phase) = Phase))
    /\ [](current_phase \notin Terminal
            => (/\ mark_failure(Phase) = transition_to(Phase, FAILED)
                /\ mark_stopped(Phase) = transition_to(Phase, STOPPED)))
    /\ [][(pc = "run_handle" /\ current_phase \in Terminal)
            => current_phase' = current_phase]_vars

\* C35, amended: mark_failure changes nothing only when the phase is
\* already Failed and mark_stopped only when it is already Stopped; from
\* every other phase, terminal or not, they transition to Failed,
\* respectively Stopped; so the except clauses of run() leave the phase
\* Stopped after a stop and Failed after a failure.
C35_MarkKeepsOwnPhase ==
    /\ [](mark_failure(Phase) = IF current_phase = FAILED THEN Phase
                                ELSE transition_to(Phase, FAILED))
    /\ [](mark_stopped(Phase) = IF current_phase = STOPPED THEN Phase
                                ELSE transition_to(Phase, STOPPED))
    /\ [][(pc = "run_handle" /\ pc' # pc /\ exc # NoExc)
            => current_phase' =
                 (IF Catches("TicketRunnerStopped", exc.cls) THEN STOPPED
                  ELSE FAILED)]_vars

\* a stop seen at the start of a retry moved the phase from Failed to Stopped
C35_StoppedAfterFailed ==
    /\ RunCalled
    /\ current_phase = STOPPED
    /\ Len(phase_history) >= 2
    /\ phase_history[Len(phase_history) - 1] = FAILED


\* ------------------------------------------------- the step executors
\* One driver call of a step executor: what was called, on which selector of
\* the executor's list (0: the executor has one selector only), and whether
\* the call raised.
Ev(call, sel, raised) == [call |-> call, sel |-> sel, raised |-> raised]

\* how a step executor ended
StepResult(op, input, trace, returned) ==
    [op |-> op, input |-> input, trace |-> trace, returned |-> returned]

\* the calls of a trace named call that did not raise
Clicks(trace, call) ==
    Cardinality({i \in 1..Len(trace) :
                    trace[i].call = call /\ ~trace[i].raised})

\* the calls of a trace named call, raising ones included
Attempts(trace, call) ==
    Cardinality({i \in 1..Len(trace) : trace[i].call = call})

Max(a, b) == IF a >= b THEN a ELSE b

\* what _smart_wait_and_click meets at one selector: the wait times out or
\* raises; the element is clicked; the click raises and the gesture goes
\* through; the click raises and element.rect or the gesture raises as well
SelectorOutcomes ==
    {"timeout", "wait_raise", "clicked", "gestured", "rect_raise",
     "gesture_raise"}

\* the selector lists of at most MaxSelectors entries with their outcomes
SelectorRuns ==
    UNION {[1..n -> SelectorOutcomes] : n \in 1..MaxSelectors}

\* the inner except clause of _smart_wait_and_click without the outer one:
\* an exception of the gesture leaves the helper
gesture_failure_escapes(o) ==
    IF o \in {"rect_raise", "gesture_raise"} THEN "raised" ELSE "next"

\* lines 583-587: an exception of element.rect or of the gesture is caught
\* by the outer except Exception, which goes on to the next selector
gesture_failure(o) ==
    IF Catches("Exception", "WebDriverException") THEN "next" ELSE "raised"

\* lines 551-590: the loop of _smart_wait_and_click from selector i on.
\* stop_at is the selector before which the stop check raises (0: none).
RECURSIVE smart_loop(_, _, _, _)
smart_loop(outs, stop_at, i, trace) ==
    IF i > Len(outs) THEN [trace |-> trace, returned |-> "false"]
    ELSE IF stop_at = i THEN [trace |-> trace, returned |-> "stopped"]
    ELSE
        LET o == outs[i]
            waited == Append(trace, Ev("wait", i, o \in {"timeout", "wait_raise"}))
            clicked == Append(waited, Ev("click", i, o # "clicked"))
            measured == Append(clicked, Ev("rect", i, o = "rect_raise"))
            gestured == Append(measured, Ev("gesture", i, o = "gesture_raise"))
        IN
        IF o \in {"timeout", "wait_raise"}
        THEN smart_loop(outs, stop_at, i + 1, waited)
        ELSE IF o = "clicked" THEN [trace |-> clicked, returned |-> "true"]
        ELSE IF o = "gestured" THEN [trace |-> gestured, returned |-> "true"]
        ELSE IF gesture_failure(o) = "raised"
        THEN [trace |-> IF o = "rect_raise" THEN measured ELSE gestured,
              returned |-> "raised"]
        ELSE smart_loop(outs, stop_at, i + 1,
                        IF o = "rect_raise" THEN measured ELSE gestured)

\* _smart_wait_and_click(selector, backups), lines 543-590
smart_wait_and_click(outs, stop_at) ==
    LET r == smart_loop(outs, stop_at, 1, <<>>) IN
    StepResult("smart_wait_and_click", [outs |-> outs, stop_at |-> stop_at],
               r.trace, r.returned)

\* what _tap_purchase_button and _confirm_purchase meet: the wait times
\* out or raises, reading the text raises, the click raises, or all goes
\* through
ButtonOutcomes == {"timeout", "wait_raise", "text_raise", "click_raise", "ok"}

\* _tap_purchase_button, lines 787-798: one wait, one direct click; every
\* exception is answered by False
tap_purchase_button(o) ==
    LET waited == <<Ev("wait", 0, o \in {"timeout", "wait_raise"})>>
        clicked == Append(waited, Ev("click", 0, o = "click_raise"))
    IN
    IF o \in {"timeout", "wait_raise"}
    THEN StepResult("tap_purchase_button", [o |-> o], waited, "false")
    ELSE StepResult("tap_purchase_button", [o |-> o], clicked,
                    IF o = "click_raise" THEN "false" ELSE "true")

\* _confirm_purchase, lines 1013-1025: one wait, the button's text, one
\* direct click; every exception is answered by (False, "")
confirm_purchase(o) ==
    LET waited == <<Ev("wait", 0, o \in {"timeout", "wait_raise"})>>
        read == Append(waited, Ev("text", 0, o = "text_raise"))
        clicked == Append(read, Ev("click", 0, o = "click_raise"))
    IN
    IF o \in {"timeout", "wait_raise"}
    THEN StepResult("confirm_purchase", [o |-> o], waited, "false")
    ELSE IF o = "text_raise"
    THEN StepResult("confirm_purchase", [o |-> o], read, "false")
    ELSE StepResult("confirm_purchase", [o |-> o], clicked,
                    IF o = "click_raise" THEN "false" ELSE "true")

\* what _select_session and _select_price meet: how the wait for the
\* container ends, which selector of the list finds an element (0: none)
\* and how the click on it ends
IndexEnvs(selectors) ==
    {[container |-> c, found |-> 0, click |-> "none"] :
        c \in {"timeout", "raise", "ok"}}
    \cup [container : {"ok"}, found : 1..selectors, click : {"ok", "raise"}]

\* lines 896-931 and 933-967: False at once without an index; the wait for
\* the container, whose TimeoutException alone is caught; find_element per
\* selector, every exception of which goes on to the next selector; one
\* direct click, outside every try block
select_indexed(op, configured, selectors, env) ==
    LET waited == <<Ev("wait", 0, env.container # "ok")>>
        tried == IF env.found = 0 THEN selectors ELSE env.found
        found == waited \o [i \in 1..tried |->
                               Ev("find_element", i, i # env.found)]
        clicked == Append(found, Ev("click", env.found, env.click = "raise"))
        input == [configured |-> configured, env |-> env]
    IN
    IF ~configured THEN StepResult(op, input, <<>>, "false")
    ELSE IF env.container = "timeout"
    THEN StepResult(op, input, waited, "false")
    ELSE IF env.container = "raise"
    THEN StepResult(op, input, waited, "raised")
    ELSE IF env.found = 0 THEN StepResult(op, input, found, "false")
    ELSE StepResult(op, input, clicked,
                    IF env.click = "raise" THEN "raised" ELSE "true")

\* _select_session, lines 896-931 (three selectors)
select_session(configured, env) ==
    select_indexed("select_session", configured, 3, env)

\* _select_price, lines 933-967 (two selectors)
select_price(configured, env) ==
    select_indexed("select_price", configured, 2, env)

\* what _select_quantity meets: how reading the displayed quantity ends
\* (the wait times out or raises, the text is no number, or it shows
\* current), whether the two controls are found, and which click raises
\* (0: none)
QuantityEnvs ==
    {[display |-> d, current |-> 0, plus |-> "ok", minus |-> "ok",
      click_fails |-> 0] : d \in {"timeout", "raise", "garbled"}}
    \cup {[display |-> "number", current |-> c, plus |-> p, minus |-> m,
           click_fails |-> 0] :
            c \in 0..MaxQuantity,
            p \in {"ok", "timeout"}, m \in {"ok", "timeout"}}
    \cup [display : {"number"}, current : 0..MaxQuantity, plus : {"ok"},
          minus : {"ok"}, click_fails : 1..MaxQuantity]

\* the quantity set absolutely: one click per ticket wanted
delta_absolute(quantity, current_quantity) == quantity

\* line 991: delta = quantity - current_quantity
delta(quantity, current_quantity) == quantity - current_quantity

\* lines 994-1003: n clicks on one control, ended by the first that raises
quantity_clicks(control, n, fails_at) ==
    [i \in 1..(IF fails_at \in 1..n THEN fails_at ELSE n) |->
        Ev(control, 0, i = fails_at)]

\* _select_quantity, lines 969-1011: every exception is answered by False
select_quantity(quantity, env) ==
    LET input == [quantity |-> quantity, env |-> env]
        shown == <<Ev("wait_tv_num", 0, env.display \in {"timeout", "raise"})>>
        read == Append(shown, Ev("text", 0, FALSE))
        plus == Append(read, Ev("wait_img_jia", 0, env.plus = "timeout"))
        minus == Append(plus, Ev("wait_img_jian", 0, env.minus = "timeout"))
        d == delta(quantity, env.current)
        clicks == IF d > 0
                  THEN quantity_clicks("click_img_jia", d, env.click_fails)
                  ELSE IF d < 0
                  THEN quantity_clicks("click_img_jian", 0 - d,
                                       env.click_fails)
                  ELSE <<>>
    IN
    IF env.display \in {"timeout", "raise"}
    THEN StepResult("select_quantity", input, shown, "false")
    ELSE IF env.display = "garbled"
    THEN StepResult("select_quantity", input, read, "false")
    ELSE IF env.plus = "timeout"
    THEN StepResult("select_quantity", input, plus, "false")
    ELSE IF env.minus = "timeout"
    THEN StepResult("select_quantity", input, minus, "false")
    ELSE StepResult("select_quantity", input, minus \o clicks,
                    IF \E i \in 1..Len(clicks) : clicks[i].raised
                    THEN "false" ELSE "true")

\* a flow step or the theme dialog calls _smart_wait_and_click
SmartWaitAndClick ==
    /\ ui = NoStep
    /\ \E outs \in SelectorRuns, stop_at \in 0..MaxSelectors :
        /\ stop_at <= Len(outs)
        /\ ui' = smart_wait_and_click(outs, stop_at)
    /\ UNCHANGED <<runnerVars, gui, timer>>

\* line 456
TapPurchaseButton ==
    /\ ui = NoStep
    /\ \E o \in ButtonOutcomes \ {"text_raise"} : ui' = tap_purchase_button(o)
    /\ UNCHANGED <<runnerVars, gui, timer>>

\* line 468
SelectSession ==
    /\ ui = NoStep
    /\ \E env \in IndexEnvs(3) :
        ui' = select_session(config.session_index, env)
    /\ UNCHANGED <<runnerVars, gui, timer>>

\* line 474
SelectPrice ==
    /\ ui = NoStep
    /\ \E env \in IndexEnvs(2) : ui' = select_price(config.price_index, env)
    /\ UNCHANGED <<runnerVars, gui, timer>>

\* line 481
SelectQuantity ==
    /\ ui = NoStep
    /\ \E quantity \in 1..MaxQuantity, env \in QuantityEnvs :
        ui' = select_quantity(quantity, env)
    /\ UNCHANGED <<runnerVars, gui, timer>>

\* line 488
ConfirmPurchase ==
    /\ ui = NoStep
    /\ \E o \in ButtonOutcomes : ui' = confirm_purchase(o)
    /\ UNCHANGED <<runnerVars, gui, timer>>

StepNext ==
    \/ SmartWaitAndClick
    \/ TapPurchaseButton
    \/ SelectSession
    \/ SelectPrice
    \/ SelectQuantity
    \/ ConfirmPurchase

\* one call of a step executor, the driver answering as it may
StepSpec == Init /\ [][StepNext]_vars


\* C36: the quantity adjustment is delta-driven.  With c displayed and q
\* wanted, a call of _select_quantity that returns True has clicked the
\* increment control exactly max(q - c, 0) times and the decrement control
\* exactly max(c - q, 0) times (no click when c = q); no call clicks a
\* control more often than that, and a call returns False only where a
\* driver call raised or the displayed text was no number.
C36_DeltaDrivenClicks ==
    ui.op = "select_quantity" =>
        LET q == ui.input.quantity
            c == ui.input.env.current
        IN
        /\ ui.returned = "true" =>
              /\ ui.input.env.display = "number"
              /\ Clicks(ui.trace, "click_img_jia") = Max(q - c, 0)
              /\ Clicks(ui.trace, "click_img_jian") = Max(c - q, 0)
              /\ Attempts(ui.trace, "click_img_jia") = Max(q - c, 0)
              /\ Attempts(ui.trace, "click_img_jian") = Max(c - q, 0)
        /\ ui.input.env.display = "number" =>
              /\ Attempts(ui.trace, "click_img_jia") <= Max(q - c, 0)
              /\ Attempts(ui.trace, "click_img_jian") <= Max(c - q, 0)
        /\ ui.returned = "false" =>
              \/ ui.input.env.display = "garbled"
              \/ \E i \in 1..Len(ui.trace) : ui.trace[i].raised

\* 3 displayed and 7 wanted: four increment clicks, no decrement click
C36_ThreeToSeven ==
    /\ ui.op = "select_quantity"
    /\ ui.returned = "true"
    /\ ui.input.env.current = 3
    /\ ui.input.quantity = 7
    /\ Clicks(ui.trace, "click_img_jia") = 4
    /\ Clicks(ui.trace, "click_img_jian") = 0


\* the selectors a call of _smart_wait_and_click waited for
Tried == {ui.trace[j].sel : j \in 1..Len(ui.trace)}

\* selector i resolved within the timeout
Resolved(i) == ui.input.outs[i] \notin {"timeout", "wait_raise"}

\* the element of selector i was clicked, directly or by the gesture
Won(i) == ui.input.outs[i] \in {"clicked", "gestured"}

\* the selectors are tried in list order
InListOrder ==
    \A j, k \in 1..Len(ui.trace) : j < k => ui.trace[j].sel <= ui.trace[k].sel

\* C37 as stated: the selectors are tried in list order, no selector is
\* tried after the first one that resolved within its timeout, and the
\* helper returns False, raising nothing, when no selector resolves.
C37_FirstResolvedWins ==
    ui.op = "smart_wait_and_click" =>
        /\ InListOrder
        /\ \A i \in Tried : Resolved(i) => \A k \in Tried : k <= i
        /\ (\A i \in 1..Len(ui.input.outs) : ~Resolved(i))
              => ui.returned = "false"

\* C37 as the code has it: the selectors are tried in list order; the
\* helper returns True at the first selector whose element it clicked,
\* directly or by the gesture, and tries none after it; a selector whose
\* wait fails or whose element takes neither click is passed over; with no
\* selector clicked it returns False, and it raises nothing but the
\* TicketRunnerStopped of the stop check made before each selector.
C37_FirstClickedWins ==
    ui.op = "smart_wait_and_click" =>
        /\ InListOrder
        /\ ui.returned \in {"true", "false", "stopped"}
        /\ ui.returned = "true" =>
              \E w \in Tried :
                  /\ Won(w)
                  /\ Tried = 1..w
                  /\ \A i \in 1..(w - 1) : ~Won(i)
        /\ ui.returned = "false" =>
              /\ Tried = 1..Len(ui.input.outs)
              /\ \A i \in Tried : ~Won(i)
        /\ ui.returned = "stopped" =>
              /\ ui.input.stop_at >= 1
              /\ Tried = 1..(ui.input.stop_at - 1)
              /\ \A i \in Tried : ~Won(i)

\* the first selector resolved, its element took neither click, and the
\* second selector was clicked
C37_SecondSelectorAfterFailedClicks ==
    /\ ui.op = "smart_wait_and_click"
    /\ ui.returned = "true"
    /\ ui.input.outs[1] = "gesture_raise"
    /\ Tried = {1, 2}


\* the executors C38 names: the purchase-button, session, price and confirm
\* steps, and the selector-fallback helper
ClickingSteps ==
    {"tap_purchase_button", "select_session", "select_price",
     "confirm_purchase", "smart_wait_and_click"}

\* the direct click at position j of the trace raised
DirectClickRaised(j) ==
    ui.trace[j].call = "click" /\ ui.trace[j].raised

\* the fallback to the gesture at the element's centre was taken after
\* position j
GestureFollows(j) ==
    /\ j < Len(ui.trace)
    /\ ui.trace[j + 1].call = "rect"
    /\ ui.trace[j + 1].sel = ui.trace[j].sel

\* C38: every click of a flow step follows the two-tier policy: the direct
\* click comes first, and the gesture click at the element's centre is
\* attempted exactly when the direct click raised, before the step reports
\* a failure.
C38_TwoTierClick ==
    ui.op \in ClickingSteps =>
        \A j \in 1..Len(ui.trace) :
            /\ DirectClickRaised(j) => GestureFollows(j)
            /\ ui.trace[j].call = "rect" =>
                  /\ j > 1
                  /\ DirectClickRaised(j - 1)
                  /\ ui.trace[j - 1].sel = ui.trace[j].sel


\* C39: in the scheduled start of the GUI, once the countdown has reached
\* zero without having been cancelled (on_countdown_finish was called), a
\* ticket run has been started, with or without a pre-heated Runner.
C39_FinishStartsRun ==
    gui.finished > 0 => gui.run_thread # "none"


\* ------------------------------------------------------- CountdownTimer
\* what an on_update callback does with the timer it is called by
UpdateCallbacks == {"none", "stop", "reset"}

\* CountdownTimer.stop, lines 62-70
timer_stop(t) == [t EXCEPT !.running = FALSE, !.timer_id = FALSE]

\* CountdownTimer.reset, lines 72-76
timer_reset(t) == [timer_stop(t) EXCEPT !.displayed = -1]

\* the client calls stop() or reset()
halt(t, call) ==
    [(IF call = "reset" THEN timer_reset(t) ELSE timer_stop(t))
        EXCEPT !.halted = TRUE]

\* line 104: _on_update(remaining) is invoked; the callback does cb
on_update(t, cb) ==
    LET called == IF t.halted THEN [t EXCEPT !.late = "on_update"] ELSE t
    IN IF cb = "none" THEN called ELSE halt(called, cb)

\* line 110: _on_finish() is invoked
on_finish(t) ==
    [t EXCEPT !.finishes = t.finishes + 1,
              !.late = IF t.halted THEN "on_finish" ELSE t.late]

\* CountdownTimer._tick, lines 85-114: _running is read at line 87 only
timer_tick(t, cb) ==
    IF ~t.running THEN t
    ELSE LET shown == IF t.remaining # t.displayed
                      THEN on_update([t EXCEPT !.displayed = t.remaining], cb)
                      ELSE t
         IN IF t.remaining <= 0
            THEN on_finish([shown EXCEPT !.running = FALSE])
            ELSE [shown EXCEPT !.timer_id = TRUE]

\* CountdownTimer.start, lines 40-60
timer_start(t, duration, cb) ==
    timer_tick([timer_stop(t) EXCEPT !.remaining = duration,
                                     !.running = TRUE, !.displayed = -1,
                                     !.halted = FALSE, !.late = "none",
                                     !.finishes = 0,
                                     !.starts = t.starts + 1], cb)

\* the client calls start(duration, on_finish, on_update)
CountdownStart ==
    /\ timer.starts < MaxStarts
    /\ \E duration \in 0..MaxCountdown, cb \in UpdateCallbacks :
        timer' = timer_start(timer, duration, cb)
    /\ UNCHANGED <<runnerVars, gui, ui>>

\* a second passes
CountdownElapse ==
    /\ timer.running
    /\ timer.remaining > 0
    /\ timer' = [timer EXCEPT !.remaining = timer.remaining - 1]
    /\ UNCHANGED <<runnerVars, gui, ui>>

\* the Tk loop runs the pending _tick callback
CountdownTick ==
    /\ timer.timer_id
    /\ \E cb \in UpdateCallbacks :
        timer' = timer_tick([timer EXCEPT !.timer_id = FALSE], cb)
    /\ UNCHANGED <<runnerVars, gui, ui>>

\* the client calls stop() or reset() from outside the callbacks
CountdownHalt ==
    /\ timer.starts > 0
    /\ \E call \in {"stop", "reset"} : timer' = halt(timer, call)
    /\ UNCHANGED <<runnerVars, gui, ui>>

TimerNext ==
    \/ CountdownStart
    \/ CountdownElapse
    \/ CountdownTick
    \/ CountdownHalt

\* a CountdownTimer and its client
TimerSpec == Init /\ [][TimerNext]_vars

\* C40: after stop() or reset(), a call made inside an on_update callback
\* included, neither on_update nor on_finish is invoked until the next
\* start(), and on_finish is invoked at most once per start().
C40_NoCallbackAfterStop ==
    /\ timer.late = "none"
    /\ timer.finishes <= 1

====
